---- MODULE Spec2Model ----
(***************************************************************************)
(* A model of the data-shaping helpers of attio-mcp-server (helpers.ts:    *)
(* extractRecordName, flattenValues, shapeSearchResults,                   *)
(* computePipelineSummary, enrichTasks, buildActivityTimeline).            *)
(*                                                                         *)
(* The helpers are pure functions over dynamically typed JSON data, so the *)
(* model carries an explicit encoding of JavaScript values and of the      *)
(* operators the helpers use on them (||, ??, ?., typeof, Number, String,  *)
(* template literals, trim, <, Array.prototype.sort).  A call is a state   *)
(* machine of two steps: the initial state holds the arguments, the call   *)
(* action computes the result (a value, or a raised TypeError).            *)
(*                                                                         *)
(* The tool handlers of index.ts are asynchronous: an invocation is a      *)
(* state machine with one step per stretch of code between two awaits.     *)
(* pc is the position of the invocation, args its input together with the  *)
(* outcome of every CRM call it can make, locals the handler's local       *)
(* variables, calls the CRM calls issued so far, result what it returned.   *)
(* inflight holds the other invocations when several are in flight at once.*)
(* The /mcp handler of HTTP mode is modelled the same way, with the        *)
(* session table among the locals of main.                                 *)
(***************************************************************************)
EXTENDS Integers, Sequences, FiniteSets, TLC

VARIABLES pc, args, result, locals, calls, inflight
vars == <<pc, args, result, locals, calls, inflight>>

(***************************************************************************)
(* JavaScript values.  A string is a sequence of characters; a character   *)
(* is written as a TLA+ string, and a word whose inner structure no helper *)
(* looks at is written as one character.                                   *)
(***************************************************************************)
Undefined == [t |-> "undefined"]
Null == [t |-> "null"]
NaN == [t |-> "NaN"]
Str(s) == [t |-> "string", v |-> s]
Num(n) == [t |-> "number", v |-> n]
Bool(b) == [t |-> "boolean", v |-> b]
Obj(f) == [t |-> "object", f |-> f]
Arr(s) == [t |-> "array", items |-> s]
\* The outcome of a call that throws (a property read on null or undefined).
TypeError == [t |-> "TypeError"]
\* No call has returned yet.
NoResult == [t |-> "none"]

EmptyObj == Obj(<<>>)

\* ToBoolean: the falsy values are undefined, null, "", 0, NaN and false.
Truthy(v) ==
  CASE v.t \in {"undefined", "null", "NaN"} -> FALSE
    [] v.t = "string" -> v.v /= <<>>
    [] v.t = "number" -> v.v /= 0
    [] v.t = "boolean" -> v.v
    [] OTHER -> TRUE

\* a || b
Or(a, b) == IF Truthy(a) THEN a ELSE b

\* a ?? b
Coalesce(a, b) == IF a.t \in {"undefined", "null"} THEN b ELSE a

\* o?.k, and o.k for an o that is neither null nor undefined: a field the
\* object does not carry, and any field of a primitive, reads as undefined.
Get(o, k) ==
  IF o.t = "object" /\ k \in DOMAIN o.f THEN o.f[k] ELSE Undefined

\* a?.[0], and a[0] for an a that is neither null nor undefined: the first
\* element of an array, the first character of a string.
First(a) ==
  CASE a.t = "array" /\ Len(a.items) > 0 -> a.items[1]
    [] a.t = "string" /\ Len(a.v) > 0 -> Str(<<Head(a.v)>>)
    [] OTHER -> Undefined

\* o.k !== undefined
Has(o, k) == Get(o, k) /= Undefined

IsWhitespace(c) == c = " "

RECURSIVE TrimStart(_)
TrimStart(s) ==
  IF s /= <<>> /\ IsWhitespace(Head(s)) THEN TrimStart(Tail(s)) ELSE s

RECURSIVE TrimEnd(_)
TrimEnd(s) ==
  IF s /= <<>> /\ IsWhitespace(s[Len(s)])
  THEN TrimEnd(SubSeq(s, 1, Len(s) - 1))
  ELSE s

\* String.prototype.trim
Trim(s) == TrimEnd(TrimStart(s))

\* String(v) and `${v}`: the characters of the string form of v (an array
\* joins the forms of its elements with commas, null and undefined elements
\* giving nothing).
RECURSIVE ToStr(_)
RECURSIVE JoinItems(_)
JoinItems(items) ==
  IF items = <<>> THEN <<>>
  ELSE (IF Head(items).t \in {"null", "undefined"} THEN <<>> ELSE ToStr(Head(items)))
       \o (IF Len(items) > 1 THEN <<",">> \o JoinItems(Tail(items)) ELSE <<>>)

ToStr(v) ==
  CASE v.t = "string" -> v.v
    [] v.t = "number" -> <<ToString(v.v)>>
    [] v.t = "boolean" -> IF v.v THEN <<"true">> ELSE <<"false">>
    [] v.t = "array" -> JoinItems(v.items)
    [] v.t = "object" -> <<"[object Object]">>
    [] OTHER -> <<v.t>>

\* The numbers of the model, for reading a number out of a string.
Numerals == {0, 7, 5000, 30000}

\* Number(v): a numeric string converts to its number, the empty or blank
\* string to 0, a boolean to 0 or 1, null to 0, anything else to NaN.
RECURSIVE ToNumber(_)
ToNumber(v) ==
  CASE v.t = "number" -> v
    [] v.t = "string" ->
         IF Trim(v.v) = <<>> THEN Num(0)
         ELSE IF \E n \in Numerals : Trim(v.v) = <<ToString(n)>>
           THEN Num(CHOOSE n \in Numerals : Trim(v.v) = <<ToString(n)>>)
           ELSE NaN
    [] v.t = "boolean" -> IF v.v THEN Num(1) ELSE Num(0)
    [] v.t = "null" -> Num(0)
    [] v.t = "array" -> ToNumber(Str(JoinItems(v.items)))
    [] OTHER -> NaN

\* a + b on numbers: NaN absorbs.
Add(a, b) == IF a.t = "NaN" \/ b.t = "NaN" THEN NaN ELSE Num(a.v + b.v)

\* `${first || ""} ${last || ""}`.trim()
ComposeName(o) ==
  Str(Trim(ToStr(Or(Get(o, "first_name"), Str(<<>>))) \o <<" ">>
           \o ToStr(Or(Get(o, "last_name"), Str(<<>>)))))

(***************************************************************************)
(* flattenValues                                                           *)
(***************************************************************************)
\* /^\d{4}-\d{2}/.test(s): the date-like words of the model.
DateWords == {"2026-01-15"}
IsDateLike(v) == v.t = "string" /\ v.v /= <<>> /\ Head(v.v) \in DateWords

\* first.status?.title || first.status, first.option?.title || first.option
TitleOf(x) == Or(Get(x, "title"), x)

\* first.full_name || composed, with the operands of || exchanged.
FlattenName_ComposedFirst(first) ==
  Or(ComposeName(first), Get(first, "full_name"))

\* The personal-name branch: first.full_name || `${first} ${last}`.trim()
FlattenName(first) == Or(Get(first, "full_name"), ComposeName(first))

\* flattenValues' loop body with the generic value test moved ahead of the
\* status, record-reference and option tests.
FlattenFirst_GenericFirst(first) ==
  IF first.t \in {"null", "undefined"} THEN TypeError
  ELSE IF Has(first, "full_name") THEN FlattenName(first)
  ELSE IF Has(first, "email_address") THEN Get(first, "email_address")
  ELSE IF Has(first, "phone_number") THEN Get(first, "phone_number")
  ELSE IF Has(first, "currency_value")
    THEN Obj([amount |-> Get(first, "currency_value"),
              currency |-> Or(Get(first, "currency_code"), Null)])
  ELSE IF Has(first, "value") THEN Get(first, "value")
  ELSE IF Has(first, "status") THEN TitleOf(Get(first, "status"))
  ELSE IF Has(first, "target_record_id")
    THEN Obj([recordId |-> Get(first, "target_record_id"),
              objectType |-> Or(Get(first, "target_object"), Null)])
  ELSE IF Has(first, "option") THEN TitleOf(Get(first, "option"))
  ELSE first

\* The loop body of flattenValues for a non-empty array: the primary value of
\* its first element.  Reading a field of null or undefined throws.
FlattenFirst(first) ==
  IF first.t \in {"null", "undefined"} THEN TypeError
  ELSE IF Has(first, "full_name") THEN FlattenName(first)
  ELSE IF Has(first, "email_address") THEN Get(first, "email_address")
  ELSE IF Has(first, "phone_number") THEN Get(first, "phone_number")
  ELSE IF Has(first, "currency_value")
    THEN Obj([amount |-> Get(first, "currency_value"),
              currency |-> Or(Get(first, "currency_code"), Null)])
  ELSE IF Has(first, "status") THEN TitleOf(Get(first, "status"))
  ELSE IF Has(first, "target_record_id")
    THEN Obj([recordId |-> Get(first, "target_record_id"),
              objectType |-> Or(Get(first, "target_object"), Null)])
  ELSE IF Has(first, "option") THEN TitleOf(Get(first, "option"))
  ELSE IF Has(first, "value") /\ IsDateLike(Get(first, "value"))
    THEN Get(first, "value")
  ELSE IF Has(first, "value") THEN Get(first, "value")
  ELSE IF first.t \in {"string", "number", "boolean"} THEN first
  ELSE first

\* One key of the mapping: null unless its value is a non-empty array.
FlattenEntry(arr) ==
  IF arr.t /= "array" \/ Len(arr.items) = 0 THEN Null
  ELSE FlattenFirst(arr.items[1])

\* Object.entries(values): the own keys of an object, the indices of an array.
OwnEntries(values) ==
  IF values.t = "array"
  THEN [k \in {ToString(i - 1) : i \in 1..Len(values.items)} |->
          values.items[CHOOSE i \in 1..Len(values.items) : ToString(i - 1) = k]]
  ELSE values.f

\* flattenValues leaving out the keys that hold no non-empty array, in place
\* of setting them to null.
flattenValues_SkipEmpty(values) ==
  IF ~Truthy(values) \/ values.t \notin {"object", "array"} THEN EmptyObj
  ELSE LET entries == OwnEntries(values)
           kept == {k \in DOMAIN entries : FlattenEntry(entries[k]) /= Null}
       IN
    IF \E k \in DOMAIN entries : FlattenEntry(entries[k]) = TypeError
    THEN TypeError
    ELSE Obj([k \in kept |-> FlattenEntry(entries[k])])

flattenValues(values) ==
  IF ~Truthy(values) \/ values.t \notin {"object", "array"} THEN EmptyObj
  ELSE LET entries == OwnEntries(values) IN
    IF \E k \in DOMAIN entries : FlattenEntry(entries[k]) = TypeError
    THEN TypeError
    ELSE Obj([k \in DOMAIN entries |-> FlattenEntry(entries[k])])

(***************************************************************************)
(* Inputs of flattenValues.                                                *)
(***************************************************************************)
\* The most fields one attribute value carries at once.
MaxFields == 3
\* The most keys of a mapping with several keys.
MaxKeys == 2

Word(w) == Str(<<w>>)

AttributeFields ==
  {"full_name", "first_name", "last_name", "email_address", "phone_number",
   "currency_value", "currency_code", "status", "target_record_id",
   "target_object", "option", "value", "foo"}

\* The values a field of an attribute value takes in the model.
FieldChoices(k) ==
  CASE k = "full_name" -> {Word("Alice Smith"), Str(<<>>), Null}
    [] k = "first_name" -> {Word("Bob"), Str(<<" ">>)}
    [] k = "last_name" -> {Word("Jones")}
    [] k = "email_address" -> {Word("alice@co.com"), Null}
    [] k = "phone_number" -> {Word("+1234567890")}
    [] k = "currency_value" -> {Num(50000), Num(0)}
    [] k = "currency_code" -> {Word("USD")}
    [] k = "status" -> {Obj([title |-> Word("Qualified")]), Word("open"), Null}
    [] k = "target_record_id" -> {Word("rec123")}
    [] k = "target_object" -> {Word("companies")}
    [] k = "option" -> {Obj([title |-> Word("High")]), Word("low")}
    [] k = "value" -> {Word("2026-01-15"), Word("text"), Num(42)}
    [] OTHER -> {Word("bar")}

\* The field maps over `fields` that carry at most n of them.
RECURSIVE FieldMaps(_, _)
FieldMaps(fields, n) ==
  IF fields = {} \/ n = 0 THEN {<<>>}
  ELSE LET k == CHOOSE x \in fields : TRUE IN
    FieldMaps(fields \ {k}, n)
      \cup {(k :> v) @@ m : v \in FieldChoices(k), m \in FieldMaps(fields \ {k}, n - 1)}

\* First elements of an attribute array: typed objects, primitives, and the
\* null and undefined a partial response may hold.
AttributeValues ==
  {Obj(m) : m \in FieldMaps(AttributeFields, MaxFields)}
    \cup {Word("important"), Num(99), Bool(TRUE), Null, Undefined}

\* What a key of a values mapping holds: an array, or something else.
AttributeArrays ==
  {Arr(<<>>)} \cup {Arr(<<v>>) : v \in AttributeValues}
    \cup {Arr(<<v, Word("second")>>) : v \in {Obj([value |-> Num(42)]), Null}}
    \cup {Null, Word("flat"), Num(7), Bool(TRUE)}

\* The arrays of the mappings with several keys.
FewArrays ==
  {Arr(<<>>), Null, Word("flat"), Arr(<<Null>>),
   Arr(<<Obj([value |-> Num(42)])>>),
   Arr(<<Obj([full_name |-> Word("Alice Smith")])>>)}

KeyNames == <<"name", "stage", "empty", "tags">>

ValuesMappings ==
  {Obj("name" :> a) : a \in AttributeArrays}
    \cup UNION {{Obj(m) : m \in [{KeyNames[i] : i \in 1..n} -> FewArrays]} :
                  n \in 0..MaxKeys}
    \cup {Null, Undefined, Word("text"), Num(0),
          Arr(<<Arr(<<Word("important")>>), Word("flat")>>)}

InitFlatten ==
  /\ pc = "ready"
  /\ args \in {[fn |-> "flattenValues", values |-> v] : v \in ValuesMappings}
  /\ result = NoResult
  /\ locals = <<>>
  /\ calls = <<>>
  /\ inflight = <<>>

Call_flattenValues ==
  /\ pc = "ready"
  /\ args.fn = "flattenValues"
  /\ result' = flattenValues(args.values)
  /\ pc' = "done"
  /\ UNCHANGED <<args, locals, calls, inflight>>

NextFlatten == Call_flattenValues

SpecFlatten == InitFlatten /\ [][NextFlatten]_vars

(***************************************************************************)
(* Claims about flattenValues (checked under SpecFlatten).                 *)
(***************************************************************************)
FlattenReturned ==
  /\ pc = "done"
  /\ args.fn = "flattenValues"
  /\ result /= TypeError

\* The keys of the input whose array has a first element that is an object.
ObjectKeys ==
  IF args.values.t = "object"
  THEN {k \in DOMAIN args.values.f :
          /\ args.values.f[k].t = "array"
          /\ Len(args.values.f[k].items) > 0
          /\ args.values.f[k].items[1].t = "object"}
  ELSE {}

FirstOf(k) == args.values.f[k].items[1]

\* The recognized fields, in the order the claim gives.
FieldOrder ==
  <<"email_address", "phone_number", "currency_value", "status",
    "target_record_id", "option", "value">>

Carried(e) == {i \in 1..Len(FieldOrder) : FieldOrder[i] \in DOMAIN e.f}

Earliest(e) == FieldOrder[CHOOSE i \in Carried(e) : \A j \in Carried(e) : i <= j]

\* The documented representation of one recognized field of e.
Representation(e, k) ==
  CASE k = "currency_value" ->
         Obj([amount |-> e.f[k],
              currency |-> IF "currency_code" \in DOMAIN e.f
                           THEN e.f["currency_code"] ELSE Null])
    [] k = "target_record_id" ->
         Obj([recordId |-> e.f[k],
              objectType |-> IF "target_object" \in DOMAIN e.f
                             THEN e.f["target_object"] ELSE Null])
    [] k \in {"status", "option"} ->
         IF e.f[k].t = "object" /\ "title" \in DOMAIN e.f[k].f
         THEN e.f[k].f["title"] ELSE e.f[k]
    [] OTHER -> e.f[k]

NamePart(e, k) ==
  IF k \in DOMAIN e.f /\ e.f[k].t = "string" THEN e.f[k].v ELSE <<>>

FirstLast(e) ==
  Str(Trim(NamePart(e, "first_name") \o <<" ">> \o NamePart(e, "last_name")))

\* C8 as stated: an attribute value with a full_name field flattens to exactly
\* that field's value, whatever first_name and last_name it carries.
C8_FullNameExactly ==
  FlattenReturned =>
    \A k \in ObjectKeys :
      "full_name" \in DOMAIN FirstOf(k).f
        => result.f[k] = FirstOf(k).f["full_name"]

\* C8 amended: a non-empty full_name is returned exactly; a full_name field
\* that is present but empty or null gives the trimmed "first last".
C8_FullNameUnlessEmpty ==
  FlattenReturned =>
    \A k \in ObjectKeys :
      LET e == FirstOf(k) IN
        "full_name" \in DOMAIN e.f =>
          IF e.f["full_name"].t = "string" /\ e.f["full_name"].v /= <<>>
          THEN result.f[k] = e.f["full_name"]
          ELSE result.f[k] = FirstLast(e)

C8_Witness ==
  /\ FlattenReturned
  /\ \E k \in ObjectKeys :
       /\ {"full_name", "first_name", "last_name"} \subseteq DOMAIN FirstOf(k).f
       /\ FirstOf(k).f["full_name"] = Word("Alice Smith")
       /\ result.f[k] = Word("Alice Smith")

\* C9 as stated: an attribute value with a first_name and/or a last_name but
\* no full_name field flattens to the trimmed "first last".
C9_FirstLastComposed ==
  FlattenReturned =>
    \A k \in ObjectKeys :
      LET e == FirstOf(k) IN
        (/\ "full_name" \notin DOMAIN e.f
         /\ {"first_name", "last_name"} \cap DOMAIN e.f /= {})
          => result.f[k] = FirstLast(e)

\* C10: the output has exactly the keys of the input, and a key whose value
\* is an empty array or no array maps to an explicit null.
C10_SameKeys ==
  (FlattenReturned /\ args.values.t = "object") =>
    /\ result.t = "object"
    /\ DOMAIN result.f = DOMAIN args.values.f
    /\ \A k \in DOMAIN args.values.f :
         (args.values.f[k].t /= "array" \/ args.values.f[k].items = <<>>)
           => result.f[k] = Null

C10_Witness ==
  /\ FlattenReturned
  /\ args.values.t = "object"
  /\ Cardinality(DOMAIN args.values.f) = 2
  /\ \E k \in DOMAIN args.values.f : args.values.f[k] = Arr(<<>>)
  /\ \E k \in DOMAIN args.values.f : args.values.f[k] = Word("flat")
  /\ \A k \in DOMAIN result.f : result.f[k] = Null

(***************************************************************************)
(* computePipelineSummary                                                  *)
(***************************************************************************)
\* recordNameMap.get(id), memberMap.get(id): a Map is a function from its
\* keys to its values.
MapGet(m, id) == IF id \in DOMAIN m THEN m[id] ELSE Undefined

\* The stage resolved with the option title ahead of the status title.
StageOf_OptionFirst(values) ==
  LET stageVal == First(Get(values, "stage")) IN
    Or(Get(Get(stageVal, "option"), "title"),
       Or(Get(Get(stageVal, "status"), "title"),
          Or(Get(stageVal, "value"), Null)))

\* stageVal?.status?.title || stageVal?.option?.title || stageVal?.value || null
StageOf(values) ==
  LET stageVal == First(Get(values, "stage")) IN
    Or(Get(Get(stageVal, "status"), "title"),
       Or(Get(Get(stageVal, "option"), "title"),
          Or(Get(stageVal, "value"), Null)))

\* value !== null ? Number(value) : null
NumberOrNull(value) == IF value /= Null THEN ToNumber(value) ELSE Null

\* The numeric value of an entry: the first of value/amount/deal_value, its
\* currency_value ?? value ?? null, coerced with Number().
NumValueOf(values) ==
  LET valueVal == Or(First(Get(values, "value")),
                     Or(First(Get(values, "amount")),
                        First(Get(values, "deal_value"))))
      value == Coalesce(Get(valueVal, "currency_value"),
                        Coalesce(Get(valueVal, "value"), Null))
  IN NumberOrNull(value)

EntryValues(entry) ==
  Or(Get(entry, "entry_values"), Or(Get(entry, "values"), EmptyObj))

RecordNameOf(entry, recordNameMap) ==
  LET recordId == Or(Get(entry, "record_id"), Get(entry, "parent_record_id")) IN
    IF Truthy(recordId)
    THEN Or(MapGet(recordNameMap, recordId), Str(<<"Record ">> \o ToStr(recordId)))
    ELSE Str(<<"Unknown">>)

\* The projection of one entry (the value the map callback returns).
ShapeEntry(entry, recordNameMap) ==
  [id |-> Or(Get(entry, "entry_id"), Get(entry, "id")),
   recordName |-> RecordNameOf(entry, recordNameMap),
   stage |-> StageOf(EntryValues(entry)),
   value |-> NumValueOf(EntryValues(entry))]

StageKey(stage) == Or(stage, Str(<<"No Stage">>))

\* An accumulation that counts the entries that carry a value only.
Accumulate_ValuedOnly(s, numValue) ==
  IF numValue /= Null
  THEN [s EXCEPT !.count = @ + 1, !.total = Add(@, numValue), !.hasValue = TRUE]
  ELSE s

\* s.count++ and, for a non-null value, s.total += numValue; s.hasValue = true
Accumulate(s, numValue) ==
  IF numValue /= Null
  THEN [s EXCEPT !.count = @ + 1, !.total = Add(@, numValue), !.hasValue = TRUE]
  ELSE [s EXCEPT !.count = @ + 1]

\* stageMap after one more entry, a new key going to the front.
StageMapPut_NewestFirst(stageMap, shaped) ==
  LET key == StageKey(shaped.stage)
      m == IF \E i \in 1..Len(stageMap) : stageMap[i].key = key
           THEN stageMap
           ELSE <<[key |-> key, count |-> 0, total |-> Num(0),
                   hasValue |-> FALSE]>> \o stageMap
      i == CHOOSE j \in 1..Len(m) : m[j].key = key
  IN [m EXCEPT ![i] = Accumulate(@, shaped.value)]

\* stageMap after one more entry: a Map keeps its keys in insertion order.
StageMapPut(stageMap, shaped) ==
  LET key == StageKey(shaped.stage)
      m == IF \E i \in 1..Len(stageMap) : stageMap[i].key = key
           THEN stageMap
           ELSE Append(stageMap, [key |-> key, count |-> 0, total |-> Num(0),
                                  hasValue |-> FALSE])
      i == CHOOSE j \in 1..Len(m) : m[j].key = key
  IN [m EXCEPT ![i] = Accumulate(@, shaped.value)]

\* stageMap after the first n entries.
RECURSIVE StageMapAfter(_, _, _)
StageMapAfter(entryList, recordNameMap, n) ==
  IF n = 0 THEN <<>>
  ELSE StageMapPut(StageMapAfter(entryList, recordNameMap, n - 1),
                   ShapeEntry(entryList[n], recordNameMap))

StageSummary(s) ==
  [stage |-> s.key, count |-> s.count,
   totalValue |-> IF s.hasValue THEN s.total ELSE Null]

\* Array.isArray(entries) ? entries : entries?.data || []
EntryListOf(entries) ==
  IF entries.t = "array" THEN entries ELSE Or(Get(entries, "data"), Arr(<<>>))

computePipelineSummary(listId, listName, entries, recordNameMap) ==
  LET entryList == EntryListOf(entries) IN
    IF entryList.t /= "array" THEN TypeError
    ELSE IF \E i \in 1..Len(entryList.items) :
              entryList.items[i].t \in {"null", "undefined"}
      THEN TypeError
    ELSE LET items == entryList.items
             stageMap == StageMapAfter(items, recordNameMap, Len(items))
         IN [listId |-> listId,
             listName |-> listName,
             totalEntries |-> Len(items),
             stages |-> [i \in 1..Len(stageMap) |-> StageSummary(stageMap[i])],
             entries |-> [i \in 1..Len(items) |-> ShapeEntry(items[i], recordNameMap)]]

(***************************************************************************)
(* Inputs of computePipelineSummary.                                       *)
(***************************************************************************)
\* The most entries of a pipeline drawn from CoreEntryValues.
MaxEntries == 3
\* The most entries of a pipeline drawn from WideEntryValues.
MaxWideEntries == 1

\* The sequences over S of length at most n.
SeqsUpTo(S, n) == UNION {[1..k -> S] : k \in 0..n}

StatusStage(title) == "stage" :> Arr(<<Obj([status |-> Obj([title |-> Word(title)])])>>)

StageChoices ==
  {<<>>,
   StatusStage("Qualified"),
   "stage" :> Arr(<<Obj([option |-> Obj([title |-> Word("Won")])])>>),
   "stage" :> Arr(<<Obj([value |-> Word("Custom Stage")])>>),
   "stage" :> Arr(<<Obj([status |-> Obj([title |-> Word("Qualified")]),
                         option |-> Obj([title |-> Word("Won")]),
                         value |-> Word("Custom Stage")])>>),
   "stage" :> Arr(<<Obj([option |-> Obj([title |-> Word("Won")]),
                         value |-> Word("Custom Stage")])>>),
   "stage" :> Arr(<<Obj([status |-> Obj([title |-> Str(<<>>)])])>>),
   "stage" :> Arr(<<>>),
   "stage" :> Arr(<<Obj([value |-> Word("No Stage")])>>)}

ValueChoices ==
  {<<>>,
   "value" :> Arr(<<Obj([currency_value |-> Num(5000)])>>),
   "value" :> Arr(<<Obj([currency_value |-> Num(0)])>>),
   "value" :> Arr(<<Obj([value |-> Word("abc")])>>),
   "value" :> Arr(<<Obj([value |-> Word("5000")])>>),
   "deal_value" :> Arr(<<Obj([value |-> Num(7)])>>),
   "amount" :> Arr(<<Obj([currency_value |-> Null, value |-> Num(7)])>>),
   "value" :> Arr(<<Obj([foo |-> Word("bar")])>>),
   "value" :> Arr(<<Num(0)>>) @@ "amount" :> Arr(<<Obj([value |-> Num(7)])>>),
   "value" :> Arr(<<Obj([value |-> Obj([foo |-> Word("bar")])])>>),
   "value" :> Arr(<<Obj([value |-> Bool(TRUE)])>>),
   "value" :> Arr(<<>>)}

\* Entry values that decide the stage totals: two stages, and values that
\* are a number, zero, absent, a numeric string or not numeric.
CoreEntryValues ==
  {Obj(st @@ v) :
     st \in {<<>>, StatusStage("Qualified")},
     v \in {<<>>,
            "value" :> Arr(<<Obj([currency_value |-> Num(5000)])>>),
            "value" :> Arr(<<Obj([currency_value |-> Num(0)])>>),
            "value" :> Arr(<<Obj([value |-> Word("abc")])>>),
            "deal_value" :> Arr(<<Obj([value |-> Num(7)])>>)}}

\* Entry values that differ in the shape of their value attribute.
WideEntryValues ==
  {Obj(st @@ v) : st \in {<<>>, StatusStage("Qualified")}, v \in ValueChoices}

IdChoices ==
  {"entry_id" :> Word("e1") @@ "record_id" :> Word("r1"),
   "id" :> Word("e2") @@ "parent_record_id" :> Word("r2"),
   "entry_id" :> Word("e3")}

\* The i-th entry of a list: its id and record id follow its position.
CoreEntry(i, values) ==
  Obj("entry_id" :> Str(<<"e", ToString(i)>>)
        @@ "record_id" :> Str(<<"r", ToString(i)>>)
        @@ "entry_values" :> values)

CoreEntryLists ==
  {Arr([i \in DOMAIN vs |-> CoreEntry(i, vs[i])]) :
     vs \in SeqsUpTo(CoreEntryValues, MaxEntries)}

WideEntries ==
  {Obj("entry_id" :> Word("e1") @@ "record_id" :> Word("r1")
         @@ "entry_values" :> values) : values \in WideEntryValues}
    \cup {Obj(ids @@ "entry_values" :> values) :
            ids \in IdChoices, values \in CoreEntryValues}
    \cup {Obj(ids @@ "values" :> values) :
            ids \in IdChoices, values \in CoreEntryValues}
    \cup {Obj("entry_id" :> Word("e4")), Null, Undefined}

WideEntryLists == {Arr(es) : es \in SeqsUpTo(WideEntries, MaxWideEntries)}

\* Lists whose entries differ in the shape of their stage attribute.
StageEntryLists ==
  {Arr([i \in DOMAIN sts |-> CoreEntry(i, Obj(sts[i]))]) :
     sts \in SeqsUpTo(StageChoices, MaxEntries)}

EntriesArguments ==
  CoreEntryLists \cup WideEntryLists \cup StageEntryLists
    \cup {Obj([data |-> l]) : l \in {Arr(<<>>), Arr(<<CoreEntry(1, Obj(StatusStage("Qualified")))>>)}}
    \cup {Null, Undefined, EmptyObj, Obj([data |-> Word("text")])}

RecordNameMaps ==
  {<<>>, Word("r1") :> Word("Acme Deal")}

InitPipeline ==
  /\ pc = "ready"
  /\ args \in {[fn |-> "computePipelineSummary", listId |-> Word("list1"),
                listName |-> Word("Sales Pipeline"), entries |-> e,
                recordNameMap |-> m] :
                 e \in EntriesArguments, m \in RecordNameMaps}
  /\ result = NoResult
  /\ locals = <<>>
  /\ calls = <<>>
  /\ inflight = <<>>

Call_computePipelineSummary ==
  /\ pc = "ready"
  /\ args.fn = "computePipelineSummary"
  /\ result' = computePipelineSummary(args.listId, args.listName, args.entries,
                                      args.recordNameMap)
  /\ pc' = "done"
  /\ UNCHANGED <<args, locals, calls, inflight>>

NextPipeline == Call_computePipelineSummary

SpecPipeline == InitPipeline /\ [][NextPipeline]_vars

(***************************************************************************)
(* Claims about computePipelineSummary (checked under SpecPipeline).       *)
(***************************************************************************)
PipelineReturned ==
  /\ pc = "done"
  /\ args.fn = "computePipelineSummary"
  /\ result /= TypeError

\* The label an output entry is counted under.
LabelOf(e) == IF e.stage = Null THEN Str(<<"No Stage">>) ELSE e.stage

\* The output entries counted under a stage label.
EntriesOfStage(label) ==
  {i \in 1..Len(result.entries) : LabelOf(result.entries[i]) = label}

\* An entry resolved to a numeric value: a real number, not null, not NaN.
IsNumeric(v) == v.t = "number"

RECURSIVE SumOver(_, _)
SumOver(f, S) ==
  IF S = {} THEN 0
  ELSE LET i == CHOOSE x \in S : TRUE IN f[i].value.v + SumOver(f, S \ {i})

\* C1: a stage's totalValue is null if and only if no entry of the stage
\* resolved to a numeric value; otherwise it is the sum of the resolved values
\* of the stage's entries (so [5000, 0] totals 5000 and all-zero totals 0).
C1_TotalIsSumOrNull ==
  PipelineReturned =>
    \A j \in 1..Len(result.stages) :
      LET s == result.stages[j]
          numeric == {i \in EntriesOfStage(s.stage) :
                        IsNumeric(result.entries[i].value)}
      IN IF numeric = {}
         THEN s.totalValue = Null
         ELSE s.totalValue = Num(SumOver(result.entries, numeric))

\* C2: every reported entry value is null or a real number, never NaN, and
\* no stage totalValue is NaN.
C2_NeverNaN ==
  PipelineReturned =>
    /\ \A i \in 1..Len(result.entries) :
         result.entries[i].value.t \in {"null", "number"}
    /\ \A j \in 1..Len(result.stages) :
         result.stages[j].totalValue.t \in {"null", "number"}

(***************************************************************************)
(* enrichTasks                                                             *)
(***************************************************************************)
\* The code unit of a character, for the characters compared with <.
CharCode(c) ==
  CASE c = "0" -> 48 [] c = "1" -> 49 [] c = "2" -> 50 [] c = "3" -> 51
    [] c = "4" -> 52 [] c = "5" -> 53 [] c = "6" -> 54 [] c = "7" -> 55
    [] c = "8" -> 56 [] c = "9" -> 57 [] c = "-" -> 45 [] OTHER -> 90

\* s < t on strings: the order of the first differing code unit, a proper
\* prefix coming first.
RECURSIVE LexLess(_, _)
LexLess(s, t) ==
  IF t = <<>> THEN FALSE
  ELSE IF s = <<>> THEN TRUE
  ELSE IF Head(s) = Head(t) THEN LexLess(Tail(s), Tail(t))
  ELSE CharCode(Head(s)) < CharCode(Head(t))

\* a < b: two strings compare by code units, anything else as numbers (a NaN
\* operand gives false).
JsLess(a, b) ==
  IF a.t = "string" /\ b.t = "string" THEN LexLess(a.v, b.v)
  ELSE LET x == ToNumber(a)
           y == ToNumber(b)
       IN x.t = "number" /\ y.t = "number" /\ x.v < y.v

\* (a, b) => (a.deadline! < b.deadline! ? -1 : 1)
DeadlineCompare(a, b) == IF JsLess(a.deadline, b.deadline) THEN -1 ELSE 1

\* b.date.localeCompare(a.date) for two date strings: on same-format ISO-8601
\* strings the collation order is the code unit order.
LocaleCompare(s, t) ==
  IF LexLess(s.v, t.v) THEN -1 ELSE IF LexLess(t.v, s.v) THEN 1 ELSE 0

\* The comparator with a missing date ordered first.
TimelineCompare_NullsFirst(a, b) ==
  IF ~Truthy(a.date) /\ ~Truthy(b.date) THEN 0
  ELSE IF ~Truthy(a.date) THEN -1
  ELSE IF ~Truthy(b.date) THEN 1
  ELSE LocaleCompare(b.date, a.date)

\* The comparator of buildActivityTimeline's sort.
TimelineCompare(a, b) ==
  IF ~Truthy(a.date) /\ ~Truthy(b.date) THEN 0
  ELSE IF ~Truthy(a.date) THEN 1
  ELSE IF ~Truthy(b.date) THEN -1
  ELSE LocaleCompare(b.date, a.date)

Compare(by, a, b) ==
  IF by = "deadline" THEN DeadlineCompare(a, b) ELSE TimelineCompare(a, b)

\* Array.prototype.sort as Node runs it on a short array: a binary insertion
\* sort whose every decision is `comparefn(pivot, element) < 0`.  The place of
\* the pivot in the sorted prefix, searched between left and right:
RECURSIVE InsertionPoint(_, _, _, _, _)
InsertionPoint(by, sorted, pivot, left, right) ==
  IF left >= right THEN left
  ELSE LET mid == left + ((right - left) \div 2) IN
    IF Compare(by, pivot, sorted[mid + 1]) < 0
    THEN InsertionPoint(by, sorted, pivot, left, mid)
    ELSE InsertionPoint(by, sorted, pivot, mid + 1, right)

InsertAt(sorted, pivot, at) ==
  SubSeq(sorted, 1, at) \o <<pivot>> \o SubSeq(sorted, at + 1, Len(sorted))

RECURSIVE SortFirst(_, _, _)
SortFirst(by, items, n) ==
  IF n = 0 THEN <<>>
  ELSE LET sorted == SortFirst(by, items, n - 1) IN
    InsertAt(sorted, items[n],
             InsertionPoint(by, sorted, items[n], 0, Len(sorted)))

ArraySort(by, items) == SortFirst(by, items, Len(items))

\* The assignee's name with a.id read ahead of a.referenced_actor_id.
AssigneeName_IdFirst(a, memberMap) ==
  LET id == Or(Get(a, "id"), Or(Get(a, "referenced_actor_id"), a)) IN
    Or(MapGet(memberMap, id), Str(<<"User ">> \o ToStr(id)))

\* a.referenced_actor_id || a.id || a, then memberMap.get(id) || `User ${id}`
AssigneeName(a, memberMap) ==
  LET id == Or(Get(a, "referenced_actor_id"), Or(Get(a, "id"), a)) IN
    Or(MapGet(memberMap, id), Str(<<"User ">> \o ToStr(id)))

\* lr.record_id || lr.target_record_id, then the record name or `Record ${rid}`
LinkedRecordName(lr, recordNameMap) ==
  LET rid == Or(Get(lr, "record_id"), Get(lr, "target_record_id")) IN
    Or(MapGet(recordNameMap, rid), Str(<<"Record ">> \o ToStr(rid)))

\* t.assignees || [], t.linked_records || []
ListOr(v) == Or(v, Arr(<<>>))

\* Whether building the enriched form of t throws: t, an assignee or a linked
\* record is null or undefined, or a list is not an array.
EnrichThrows(t) ==
  \/ t.t \in {"null", "undefined"}
  \/ \E k \in {"assignees", "linked_records"} :
       LET l == ListOr(Get(t, k)) IN
         \/ l.t /= "array"
         \/ \E i \in 1..Len(l.items) : l.items[i].t \in {"null", "undefined"}

\* The callback of tasks.map.
EnrichTask(t, memberMap, recordNameMap) ==
  LET as == ListOr(Get(t, "assignees")).items
      lrs == ListOr(Get(t, "linked_records")).items
  IN [id |-> Or(Get(Get(t, "id"), "task_id"), Get(t, "id")),
      content |-> Or(Get(t, "content_plaintext"),
                     Or(Get(t, "content"), Or(Get(t, "title"), Null))),
      isCompleted |-> Truthy(Get(t, "is_completed")),
      deadline |-> Or(Get(t, "deadline"), Or(Get(t, "due_date"), Null)),
      assignees |-> [i \in 1..Len(as) |-> AssigneeName(as[i], memberMap)],
      linkedRecords |-> [i \in 1..Len(lrs) |-> LinkedRecordName(lrs[i], recordNameMap)]]

HasDeadline(t) == Truthy(t.deadline)
NoDeadline(t) == ~Truthy(t.deadline)
IsOpen(t) == ~t.isCompleted
IsCompleted(t) == t.isCompleted

\* [...withDeadline, ...noDeadline] with the null deadlines put first.
SortedByDeadline_NullsFirst(enriched) ==
  SelectSeq(enriched, NoDeadline)
    \o ArraySort("deadline", SelectSeq(enriched, HasDeadline))

\* [...withDeadline, ...noDeadline]
SortedByDeadline(enriched) ==
  ArraySort("deadline", SelectSeq(enriched, HasDeadline))
    \o SelectSeq(enriched, NoDeadline)

\* The return value with completed taken from the unsorted list.
SplitByCompletion_Unsorted(enriched, sorted) ==
  [open |-> SelectSeq(sorted, IsOpen),
   completed |-> SelectSeq(enriched, IsCompleted)]

\* A return value whose open list holds every task.
SplitByCompletion_AllOpen(enriched, sorted) ==
  [open |-> sorted,
   completed |-> SelectSeq(sorted, IsCompleted)]

\* { open: sorted.filter(!isCompleted), completed: sorted.filter(isCompleted) }
SplitByCompletion(enriched, sorted) ==
  [open |-> SelectSeq(sorted, IsOpen),
   completed |-> SelectSeq(sorted, IsCompleted)]

enrichTasks(tasks, memberMap, recordNameMap) ==
  IF tasks.t /= "array" THEN TypeError
  ELSE IF \E i \in 1..Len(tasks.items) : EnrichThrows(tasks.items[i])
    THEN TypeError
  ELSE LET enriched == [i \in 1..Len(tasks.items) |->
                          EnrichTask(tasks.items[i], memberMap, recordNameMap)]
       IN SplitByCompletion(enriched, SortedByDeadline(enriched))

(***************************************************************************)
(* Inputs of enrichTasks.  A deadline is written with the digits in which  *)
(* two ISO-8601 dates of one month differ ("10" for "2026-02-10").         *)
(***************************************************************************)
\* The most tasks of a list drawn from CoreTaskFields.
MaxTasks == 3
\* The most tasks of a list drawn from WideTasks.
MaxWideTasks == 1

Date(d) == Str(d)

DeadlineChoices ==
  {"deadline" :> Date(<<"1", "0">>),
   "deadline" :> Date(<<"1", "5">>),
   "deadline" :> Null,
   "deadline" :> Str(<<>>),
   "due_date" :> Date(<<"1", "0">>)}

CoreTaskFields ==
  {dl @@ "is_completed" :> Bool(c) : dl \in DeadlineChoices, c \in BOOLEAN}

\* The i-th task of a list: its id follows its position.
CoreTask(i, fields) ==
  Obj("id" :> Obj([task_id |-> Str(<<"t", ToString(i)>>)])
        @@ "content_plaintext" :> Word("Follow up")
        @@ "assignees" :> Arr(<<Obj([referenced_actor_id |-> Word("m1")])>>)
        @@ "linked_records" :> Arr(<<>>)
        @@ fields)

CoreTaskLists ==
  {Arr([i \in DOMAIN fs |-> CoreTask(i, fs[i])]) :
     fs \in SeqsUpTo(CoreTaskFields, MaxTasks)}

AssigneeChoices ==
  {<<>>,
   "assignees" :> Arr(<<>>),
   "assignees" :> Arr(<<Obj([referenced_actor_id |-> Word("m1")])>>),
   "assignees" :> Arr(<<Obj([id |-> Word("unknown")]), Word("m2")>>),
   "assignees" :> Arr(<<Word("direct-id"), Obj([referenced_actor_id |-> Word("m2"),
                                                 id |-> Word("m1")])>>),
   "assignees" :> Arr(<<Null>>),
   "assignees" :> Null}

LinkedChoices ==
  {<<>>,
   "linked_records" :> Arr(<<Obj([record_id |-> Word("r1")])>>),
   "linked_records" :> Arr(<<Obj([target_record_id |-> Word("rec99")]),
                             Obj([record_id |-> Word("r1"),
                                  target_record_id |-> Word("rec99")])>>),
   "linked_records" :> Arr(<<Obj([foo |-> Word("bar")])>>),
   "linked_records" :> Arr(<<Undefined>>)}

ContentChoices ==
  {<<>>, "content" :> Word("Content Field"), "title" :> Word("Title Fallback"),
   "content_plaintext" :> Word("Follow up") @@ "content" :> Word("Content Field")}

WideTasks ==
  {Obj("id" :> Word("t99") @@ a @@ l @@ c @@ "is_completed" :> Bool(FALSE)) :
     a \in AssigneeChoices, l \in LinkedChoices, c \in ContentChoices}
    \cup {Obj("id" :> Word("t98") @@ "deadline" :> Date(<<"1", "5">>)),
          Obj("is_completed" :> Num(1) @@ "deadline" :> Date(<<"1", "0">>)
                @@ "due_date" :> Date(<<"1", "5">>)),
          Null, Undefined}

WideTaskLists == {Arr(ts) : ts \in SeqsUpTo(WideTasks, MaxWideTasks)}

\* The member lookups: an empty one, and one with two names and an empty name.
MemberMaps ==
  {<<>>,
   Word("m1") :> Word("Alice Smith") @@ Word("m2") :> Word("Bob Jones")
     @@ Word("unknown") :> Str(<<>>)}

TaskRecordMaps == {<<>>, Word("r1") :> Word("Acme Corp")}

InitTasks ==
  /\ pc = "ready"
  /\ args \in {[fn |-> "enrichTasks", tasks |-> ts, memberMap |-> mm,
                recordNameMap |-> rm] :
                 ts \in WideTaskLists \cup {Null, Undefined},
                 mm \in MemberMaps, rm \in TaskRecordMaps}
               \cup {[fn |-> "enrichTasks", tasks |-> ts,
                      memberMap |-> Word("m1") :> Word("Alice Smith"),
                      recordNameMap |-> <<>>] : ts \in CoreTaskLists}
  /\ result = NoResult
  /\ locals = <<>>
  /\ calls = <<>>
  /\ inflight = <<>>

\* An enrichTasks that moves the tasks without a deadline to the end of the
\* tasks argument itself.
Call_enrichTasks_SortsInput ==
  /\ pc = "ready"
  /\ args.fn = "enrichTasks"
  /\ result' = enrichTasks(args.tasks, args.memberMap, args.recordNameMap)
  /\ args' = IF args.tasks.t = "array" /\ result' /= TypeError
             THEN [args EXCEPT !.tasks =
                     Arr(SelectSeq(args.tasks.items,
                                   LAMBDA t : Truthy(Or(Get(t, "deadline"),
                                                        Get(t, "due_date"))))
                         \o SelectSeq(args.tasks.items,
                                      LAMBDA t : ~Truthy(Or(Get(t, "deadline"),
                                                            Get(t, "due_date")))))]
             ELSE args
  /\ pc' = "done"
  /\ UNCHANGED <<locals, calls, inflight>>

Call_enrichTasks ==
  /\ pc = "ready"
  /\ args.fn = "enrichTasks"
  /\ result' = enrichTasks(args.tasks, args.memberMap, args.recordNameMap)
  /\ pc' = "done"
  /\ UNCHANGED <<args, locals, calls, inflight>>

NextTasks == Call_enrichTasks

SpecTasks == InitTasks /\ [][NextTasks]_vars

(***************************************************************************)
(* Claims about enrichTasks (checked under SpecTasks).                     *)
(***************************************************************************)
TasksReturned ==
  /\ pc = "done"
  /\ args.fn = "enrichTasks"
  /\ result /= TypeError

\* The position in the input of the task an enriched task came from (the
\* lists of CoreTaskLists give every task its own id).
InputIndex(e) ==
  CHOOSE i \in 1..Len(args.tasks.items) :
    Get(Get(args.tasks.items[i], "id"), "task_id") = e.id

DistinctIds ==
  \A i, j \in 1..Len(args.tasks.items) :
    i /= j => Get(Get(args.tasks.items[i], "id"), "task_id")
                /= Get(Get(args.tasks.items[j], "id"), "task_id")

\* The deadline rule on one list: non-null deadlines first, ascending by code
\* units, then the null deadlines in input order.
FollowsDeadlineRule(l) ==
  \A i, j \in 1..Len(l) :
    i < j =>
      /\ l[i].deadline = Null => l[j].deadline = Null
      /\ (l[i].deadline /= Null /\ l[j].deadline /= Null)
           => ~LexLess(l[j].deadline.v, l[i].deadline.v)
      /\ (l[i].deadline = Null /\ l[j].deadline = Null)
           => InputIndex(l[i]) < InputIndex(l[j])

\* C3: each of open and completed lists its tasks with a non-null deadline
\* first, in ascending lexical order of deadline, followed by its tasks with
\* a null deadline in the relative order of the input.
C3_DeadlineOrder ==
  (TasksReturned /\ DistinctIds) =>
    /\ FollowsDeadlineRule(result.open)
    /\ FollowsDeadlineRule(result.completed)

C3_Witness ==
  /\ TasksReturned
  /\ Len(result.open) = 3
  /\ result.open[1].deadline = Date(<<"1", "0">>)
  /\ result.open[2].deadline = Null
  /\ result.open[3].deadline = Null
  /\ InputIndex(result.open[1]) = 3
  /\ InputIndex(result.open[2]) = 1

\* Split first, then sort each part by the same deadline rule.
SplitThenSort(tasks, memberMap, recordNameMap) ==
  LET enriched == [i \in 1..Len(tasks.items) |->
                     EnrichTask(tasks.items[i], memberMap, recordNameMap)]
  IN [open |-> SortedByDeadline(SelectSeq(enriched, IsOpen)),
      completed |-> SortedByDeadline(SelectSeq(enriched, IsCompleted))]

\* C4: for every task list, also one in which several tasks share a deadline,
\* enrichTasks (sort, then split by completion) returns the same open and
\* completed sequences as splitting by completion and then sorting each part.
C4_SortThenSplitIsSplitThenSort ==
  TasksReturned =>
    result = SplitThenSort(args.tasks, args.memberMap, args.recordNameMap)

C4_Witness ==
  /\ TasksReturned
  /\ Len(result.open) = 2
  /\ Len(result.completed) = 1
  /\ result.open[1].deadline = Date(<<"1", "0">>)
  /\ result.open[2].deadline = Date(<<"1", "0">>)
  /\ result.completed[1].deadline = Date(<<"1", "0">>)
  /\ InputIndex(result.completed[1]) = 2

(***************************************************************************)
(* buildActivityTimeline                                                   *)
(***************************************************************************)
NoteEvent(n) ==
  [type |-> "note",
   id |-> Or(Get(Get(n, "id"), "note_id"), Get(n, "id")),
   date |-> Or(Get(n, "created_at"), Null),
   title |-> Or(Get(n, "title"), Null),
   content |-> Or(Get(n, "content_plaintext"), Or(Get(n, "content"), Null))]

MeetingEvent(m) ==
  [type |-> "meeting",
   id |-> Or(Get(Get(m, "id"), "meeting_id"), Get(m, "id")),
   date |-> Or(Get(m, "start_time"), Or(Get(m, "created_at"), Null)),
   title |-> Or(Get(m, "title"), Or(Get(m, "subject"), Null)),
   content |-> Or(Get(m, "description"), Null)]

ThreadEvent(t) ==
  [type |-> "thread",
   id |-> Or(Get(Get(t, "id"), "thread_id"), Get(t, "id")),
   date |-> Or(Get(t, "created_at"), Null),
   title |-> Or(Get(t, "subject"), Null),
   content |-> Or(Get(t, "body_plaintext"), Or(Get(t, "body"), Null))]

\* Whether a for-of loop over l, reading fields of each item, throws.
LoopThrows(l) ==
  \/ l.t /= "array"
  \/ \E i \in 1..Len(l.items) : l.items[i].t \in {"null", "undefined"}

\* A timeline that leaves out the events without a date.
buildActivityTimeline_DatedOnly(notes, meetings, threads) ==
  IF LoopThrows(notes) \/ LoopThrows(meetings) \/ LoopThrows(threads)
  THEN TypeError
  ELSE LET events ==
             [i \in 1..Len(notes.items) |-> NoteEvent(notes.items[i])]
               \o [i \in 1..Len(meetings.items) |-> MeetingEvent(meetings.items[i])]
               \o [i \in 1..Len(threads.items) |-> ThreadEvent(threads.items[i])]
       IN Arr(ArraySort("timeline", SelectSeq(events, LAMBDA e : Truthy(e.date))))

buildActivityTimeline(notes, meetings, threads) ==
  IF LoopThrows(notes) \/ LoopThrows(meetings) \/ LoopThrows(threads)
  THEN TypeError
  ELSE LET events ==
             [i \in 1..Len(notes.items) |-> NoteEvent(notes.items[i])]
               \o [i \in 1..Len(meetings.items) |-> MeetingEvent(meetings.items[i])]
               \o [i \in 1..Len(threads.items) |-> ThreadEvent(threads.items[i])]
       IN Arr(ArraySort("timeline", events))

(***************************************************************************)
(* Inputs of buildActivityTimeline.                                        *)
(***************************************************************************)
\* The most items of each of the three lists.
MaxItems == 2

NoteDates == {"created_at" :> Date(<<"1", "0">>), "created_at" :> Null}

MeetingDates ==
  {"start_time" :> Date(<<"1", "5">>) @@ "created_at" :> Date(<<"1", "0">>),
   "created_at" :> Date(<<"1", "0">>),
   <<>>}

ThreadDates ==
  {"created_at" :> Date(<<"1", "5">>), "created_at" :> Date(<<"1", "0">>),
   "created_at" :> Str(<<>>)}

\* The i-th item of a list: its compound id follows its kind and position.
Item(idField, prefix, i, fields) ==
  Obj("id" :> Obj(idField :> Str(<<prefix, ToString(i)>>)) @@ fields)

ItemLists(idField, prefix, dates) ==
  {Arr([i \in DOMAIN ds |-> Item(idField, prefix, i, ds[i])]) :
     ds \in SeqsUpTo(dates, MaxItems)}

\* Single items that exercise the id, title and content fallbacks.
OddNotes ==
  {Arr(<<n>>) :
     n \in {Obj("id" :> Word("plain-nid") @@ "title" :> Word("N")
              @@ "content" :> Word("Quick note")),
            Obj("id" :> Word("n9") @@ "content_plaintext" :> Word("Discussed")
              @@ "content" :> Word("Quick note")),
            Null}}
    \cup {Null, Undefined}

OddMeetings ==
  {Arr(<<m>>) :
     m \in {Obj("id" :> Word("m2") @@ "subject" :> Word("Subj")
              @@ "description" :> Word("Desc")),
            Obj("id" :> Word("m3") @@ "title" :> Word("T")
              @@ "subject" :> Word("Subj")),
            Undefined}}
    \cup {Null}

OddThreads ==
  {Arr(<<t>>) :
     t \in {Obj("id" :> Word("th2") @@ "subject" :> Word("Test")
              @@ "body" :> Word("Body text")),
            Obj("id" :> Word("th3") @@ "body_plaintext" :> Word("Thanks")
              @@ "body" :> Word("Body text")),
            Null}}
    \cup {Undefined}

TimelineArguments ==
  {[fn |-> "buildActivityTimeline", notes |-> n, meetings |-> m, threads |-> t] :
     n \in ItemLists("note_id", "n", NoteDates),
     m \in ItemLists("meeting_id", "m", MeetingDates),
     t \in ItemLists("thread_id", "th", ThreadDates)}
    \cup {[fn |-> "buildActivityTimeline", notes |-> n, meetings |-> m, threads |-> t] :
            n \in OddNotes \cup {Arr(<<>>)},
            m \in OddMeetings \cup {Arr(<<>>)},
            t \in OddThreads \cup {Arr(<<>>)}}

InitTimeline ==
  /\ pc = "ready"
  /\ args \in TimelineArguments
  /\ result = NoResult
  /\ locals = <<>>
  /\ calls = <<>>
  /\ inflight = <<>>

Call_buildActivityTimeline ==
  /\ pc = "ready"
  /\ args.fn = "buildActivityTimeline"
  /\ result' = buildActivityTimeline(args.notes, args.meetings, args.threads)
  /\ pc' = "done"
  /\ UNCHANGED <<args, locals, calls, inflight>>

NextTimeline == Call_buildActivityTimeline

SpecTimeline == InitTimeline /\ [][NextTimeline]_vars

(***************************************************************************)
(* Claims about buildActivityTimeline (checked under SpecTimeline).        *)
(***************************************************************************)
TimelineReturned ==
  /\ pc = "done"
  /\ args.fn = "buildActivityTimeline"
  /\ result /= TypeError

\* The date the claim gives a meeting: its start_time if present, else its
\* created_at, else none.
MeetingDateOf(m) ==
  IF "start_time" \in DOMAIN m.f /\ m.f["start_time"].t = "string"
       /\ m.f["start_time"].v /= <<>>
  THEN m.f["start_time"]
  ELSE IF "created_at" \in DOMAIN m.f /\ m.f["created_at"].t = "string"
            /\ m.f["created_at"].v /= <<>>
    THEN m.f["created_at"]
    ELSE Null

\* C5: in the output every event with a non-null date precedes every event
\* with a null date, the dated events are in descending lexical order of
\* date, and a meeting's date is its start_time if present, else created_at.
C5_DatedFirstDescending ==
  TimelineReturned =>
    /\ \A i, j \in 1..Len(result.items) :
         i < j =>
           /\ result.items[i].date = Null => result.items[j].date = Null
           /\ (result.items[i].date /= Null /\ result.items[j].date /= Null)
                => ~LexLess(result.items[i].date.v, result.items[j].date.v)
    /\ \A i \in 1..Len(result.items) :
         result.items[i].type = "meeting" =>
           \E k \in 1..Len(args.meetings.items) :
             /\ Get(Get(args.meetings.items[k], "id"), "meeting_id") = result.items[i].id
                  \/ Get(args.meetings.items[k], "id") = result.items[i].id
             /\ result.items[i].date = MeetingDateOf(args.meetings.items[k])

\* A note without a date is first in the input and last in the output, behind
\* a meeting dated by its start_time and a thread.
C5_Witness ==
  /\ TimelineReturned
  /\ Len(result.items) = 4
  /\ Len(args.notes.items) = 1
  /\ Get(args.notes.items[1], "created_at") = Null
  /\ result.items[1].type = "meeting" /\ result.items[1].date = Date(<<"1", "5">>)
  /\ result.items[2].type = "thread" /\ result.items[2].date = Date(<<"1", "5">>)
  /\ result.items[3].type = "thread" /\ result.items[3].date = Date(<<"1", "0">>)
  /\ result.items[4].type = "note" /\ result.items[4].date = Null

\* The identifier of an input item, compound (under idField) or bare.
ItemIdOf(x, idField) ==
  IF "id" \notin DOMAIN x.f THEN Undefined
  ELSE IF x.f["id"].t = "object" /\ idField \in DOMAIN x.f["id"].f
    THEN x.f["id"].f[idField]
    ELSE x.f["id"]

\* How many events of the output carry the type tag and the identifier.
EventCount(type, id) ==
  Cardinality({i \in 1..Len(result.items) :
                 result.items[i].type = type /\ result.items[i].id = id})

\* How many items of an input list carry the identifier.
ItemCount(list, idField, id) ==
  Cardinality({i \in 1..Len(list.items) : ItemIdOf(list.items[i], idField) = id})

\* Every item of the list has as many events of the type as the list has
\* items of its identifier, and the type has no other event.
OneEventEach(list, idField, type) ==
  /\ \A i \in 1..Len(list.items) :
       LET id == ItemIdOf(list.items[i], idField)
       IN EventCount(type, id) = ItemCount(list, idField, id)
  /\ Cardinality({i \in 1..Len(result.items) : result.items[i].type = type})
       = Len(list.items)

\* C25: the output has exactly one event per input item: its length is the
\* number of notes plus meetings plus threads, every item has its event
\* under the type tag of its list, and none is dropped or duplicated, items
\* without a date included.
C25_OneEventPerItem ==
  TimelineReturned =>
    /\ Len(result.items)
         = Len(args.notes.items) + Len(args.meetings.items) + Len(args.threads.items)
    /\ OneEventEach(args.notes, "note_id", "note")
    /\ OneEventEach(args.meetings, "meeting_id", "meeting")
    /\ OneEventEach(args.threads, "thread_id", "thread")

\* Two notes, two meetings and a thread, three of them without a date, give
\* five events.
C25_Witness ==
  /\ TimelineReturned
  /\ Len(args.notes.items) = 2
  /\ Len(args.meetings.items) = 2
  /\ Len(args.threads.items) = 1
  /\ Len(result.items) = 5
  /\ Cardinality({i \in 1..5 : result.items[i].date = Null}) = 3
  /\ {result.items[i].id : i \in {j \in 1..5 : result.items[j].type = "note"}}
       = {Str(<<"n", "1">>), Str(<<"n", "2">>)}

(***************************************************************************)
(* extractRecordName                                                       *)
(***************************************************************************)
\* r.values || r.attributes || {}
ValuesOf(record) ==
  Or(Get(record, "values"), Or(Get(record, "attributes"), EmptyObj))

\* The name a truthy name value gives, or NoResult when it gives none.
NameFromNameVal(nameVal) ==
  IF Truthy(Get(nameVal, "full_name")) THEN Get(nameVal, "full_name")
  ELSE IF Truthy(Get(nameVal, "first_name")) \/ Truthy(Get(nameVal, "last_name"))
    THEN ComposeName(nameVal)
  ELSE IF nameVal.t = "string" THEN nameVal
  ELSE IF Truthy(Get(nameVal, "value")) THEN Str(ToStr(Get(nameVal, "value")))
  ELSE NoResult

\* The name a truthy title value gives, or NoResult when it gives none.
NameFromTitleVal(titleVal) ==
  IF titleVal.t = "string" THEN titleVal
  ELSE IF Truthy(Get(titleVal, "value")) THEN Str(ToStr(Get(titleVal, "value")))
  ELSE NoResult

FallbackKeys == <<"name", "title", "company", "deal_name", "primary_name">>

\* The fallback loop over the fields that look like a name.
RECURSIVE NameFromFallback(_, _)
NameFromFallback(values, keys) ==
  IF keys = <<>> THEN NoResult
  ELSE LET v == Get(values, Head(keys))
           first == First(v)
       IN IF v.t = "array" /\ Truthy(first)
          THEN IF Truthy(Get(first, "full_name")) THEN Get(first, "full_name")
               ELSE IF first.t = "string" THEN first
               ELSE IF Truthy(Get(first, "value"))
                 THEN Str(ToStr(Get(first, "value")))
               ELSE NameFromFallback(values, Tail(keys))
          ELSE NameFromFallback(values, Tail(keys))

extractRecordName(record) ==
  LET values == ValuesOf(record)
      nameVal == Or(First(Get(values, "name")), First(Get(values, "primary_name")))
      titleVal == Or(First(Get(values, "title")),
                     Or(First(Get(values, "company_name")),
                        First(Get(values, "deal_name"))))
      byName == IF Truthy(nameVal) THEN NameFromNameVal(nameVal) ELSE NoResult
      byTitle == IF Truthy(titleVal) THEN NameFromTitleVal(titleVal) ELSE NoResult
      byFallback == NameFromFallback(values, FallbackKeys)
  IN IF byName.t /= "none" THEN byName
     ELSE IF byTitle.t /= "none" THEN byTitle
     ELSE IF byFallback.t /= "none" THEN byFallback
     ELSE Or(Get(Get(record, "id"), "record_id"),
             Or(Get(record, "id"), Word("Unknown")))

(***************************************************************************)
(* shapeSearchResults                                                      *)
(***************************************************************************)
\* A filter that looks at the record's own object tag only.
KeepsRecord_ObjectOnly(r, objectType) ==
  \/ ~Truthy(objectType)
  \/ Get(r, "object") = objectType

\* !objectType || r.object === objectType || r.parent_object === objectType
KeepsRecord(r, objectType) ==
  \/ ~Truthy(objectType)
  \/ Get(r, "object") = objectType
  \/ Get(r, "parent_object") = objectType

\* A shaping that reports the filter before the record's own tags.
ShapeRecord_FilterFirst(r, objectType) ==
  [id |-> Or(Get(Get(r, "id"), "record_id"), Get(r, "id")),
   objectType |-> Or(objectType,
                     Or(Get(r, "object"), Or(Get(r, "parent_object"), Null))),
   name |-> extractRecordName(r),
   email |-> Null,
   company |-> Null,
   flatValues |-> flattenValues(ValuesOf(r))]

ShapeRecord(r, objectType) ==
  LET values == ValuesOf(r)
      emailArr == Or(Get(values, "email_addresses"),
                     Or(Get(values, "email"), Arr(<<>>)))
      companyArr == Or(Get(values, "company"),
                       Or(Get(values, "companies"), Arr(<<>>)))
  IN [id |-> Or(Get(Get(r, "id"), "record_id"), Get(r, "id")),
      objectType |-> Or(Get(r, "object"),
                        Or(Get(r, "parent_object"), Or(objectType, Null))),
      name |-> extractRecordName(r),
      email |-> Or(Get(First(emailArr), "email_address"),
                   Or(Get(First(emailArr), "value"), Null)),
      company |-> Or(Get(First(companyArr), "full_name"),
                     Or(Get(First(companyArr), "value"), Null)),
      flatValues |-> flattenValues(values)]

shapeSearchResults(records, objectType) ==
  IF records.t /= "array" THEN TypeError
  ELSE IF \E i \in 1..Len(records.items) :
            records.items[i].t \in {"null", "undefined"}
    THEN TypeError
  ELSE LET kept == SelectSeq(records.items, LAMBDA r : KeepsRecord(r, objectType))
           shaped == [i \in 1..Len(kept) |-> ShapeRecord(kept[i], objectType)]
       IN IF \E i \in 1..Len(shaped) : shaped[i].flatValues = TypeError
          THEN TypeError
          ELSE Arr(shaped)

(***************************************************************************)
(* Inputs of shapeSearchResults.                                           *)
(***************************************************************************)
\* The most records of a list whose records differ in their tags.
MaxRecords == 3

\* The object and parent_object tags a record carries.
TagChoices ==
  {"object" :> Word("people"),
   "object" :> Word("companies"),
   "parent_object" :> Word("people"),
   "object" :> Word("companies") @@ "parent_object" :> Word("people"),
   <<>>}

PersonValues ==
  Obj("name" :> Arr(<<Obj("full_name" :> Word("Alice Smith"))>>)
        @@ "email_addresses" :> Arr(<<Obj("email_address" :> Word("alice@test.com"))>>))

\* The i-th record of a list: its record id follows its position.
TaggedRecord(i, tags) ==
  Obj("id" :> Obj("record_id" :> Str(<<"r", ToString(i)>>))
        @@ "values" :> PersonValues @@ tags)

TaggedRecordLists ==
  {Arr([i \in DOMAIN ts |-> TaggedRecord(i, ts[i])]) :
     ts \in SeqsUpTo(TagChoices, MaxRecords)}

\* The values mappings that exercise the name, email and company fallbacks.
OddValues ==
  {Obj("name" :> Arr(<<Obj("first_name" :> Word("Bob") @@ "last_name" :> Word("Jones"))>>)),
   Obj("name" :> Arr(<<Word("Plain")>>)),
   Obj("name" :> Arr(<<Obj("value" :> Word("Acme"))>>)),
   Obj("name" :> Arr(<<Obj("foo" :> Word("x"))>>)
         @@ "title" :> Arr(<<Obj("value" :> Word("Big Deal"))>>)),
   Obj("primary_name" :> Arr(<<Obj("full_name" :> Word("Carol"))>>)),
   Obj("company_name" :> Arr(<<Word("Co")>>)),
   Obj("deal_name" :> Arr(<<Obj("value" :> Num(7))>>)),
   Obj("company" :> Arr(<<Obj("value" :> Word("FallbackCo"))>>)),
   Obj("companies" :> Arr(<<Obj("full_name" :> Word("Acme Corp"))>>)
         @@ "email" :> Arr(<<Obj("value" :> Word("dave@test.com"))>>)),
   Obj("name" :> Arr(<<Null>>)),
   Obj("name" :> Arr(<<>>)),
   EmptyObj}

OddRecords ==
  {Obj("id" :> Obj("record_id" :> Word("r1")) @@ "values" :> v
         @@ "object" :> Word("people")) : v \in OddValues}
    \cup {Obj("id" :> Word("plain-id") @@ "attributes" :> v
                @@ "parent_object" :> Word("people")) : v \in OddValues}
    \cup {Obj("parent_object" :> Word("companies")), Null, Undefined}

OddRecordLists == {Arr(<<r>>) : r \in OddRecords} \cup {Null, Undefined}

\* The type filters: none, the empty string, and two object types.
FilterChoices == {Undefined, Str(<<>>), Word("people"), Word("companies")}

InitSearch ==
  /\ pc = "ready"
  /\ args \in {[fn |-> "shapeSearchResults", records |-> rs, objectType |-> ot] :
                 rs \in TaggedRecordLists \cup OddRecordLists,
                 ot \in FilterChoices}
  /\ result = NoResult
  /\ locals = <<>>
  /\ calls = <<>>
  /\ inflight = <<>>

Call_shapeSearchResults ==
  /\ pc = "ready"
  /\ args.fn = "shapeSearchResults"
  /\ result' = shapeSearchResults(args.records, args.objectType)
  /\ pc' = "done"
  /\ UNCHANGED <<args, locals, calls, inflight>>

NextSearch == Call_shapeSearchResults

SpecSearch == InitSearch /\ [][NextSearch]_vars

(***************************************************************************)
(* Claims about shapeSearchResults (checked under SpecSearch).             *)
(***************************************************************************)
SearchReturned ==
  /\ pc = "done"
  /\ args.fn = "shapeSearchResults"
  /\ result /= TypeError

\* The identifier of an input record, as the shaped record reports it.
RecordIdOf(r) ==
  IF "id" \notin DOMAIN r.f THEN Undefined
  ELSE IF r.f["id"].t = "object" /\ "record_id" \in DOMAIN r.f["id"].f
    THEN r.f["id"].f["record_id"]
    ELSE r.f["id"]

\* Whether the object tag or the parent_object tag of r equals the filter.
TagEquals(r, filter) ==
  \/ "object" \in DOMAIN r.f /\ r.f["object"] = filter
  \/ "parent_object" \in DOMAIN r.f /\ r.f["parent_object"] = filter

IdsOf(records) == [i \in 1..Len(records) |-> RecordIdOf(records[i])]

ShapedIds == [i \in 1..Len(result.items) |-> result.items[i].id]

\* C6 as the specification states it: with a type filter (any string) the
\* shaped records are those of the input records whose object or
\* parent_object tag equals the filter, in input order; with no filter there
\* is one shaped record per input record, in input order.
C6_FilterByTag ==
  SearchReturned =>
    IF args.objectType = Undefined
    THEN ShapedIds = IdsOf(args.records.items)
    ELSE ShapedIds
           = IdsOf(SelectSeq(args.records.items,
                             LAMBDA r : TagEquals(r, args.objectType)))

\* C6, amended: with a non-empty type filter the shaped records are those of
\* the input records whose object or parent_object tag equals the filter, in
\* input order; with no filter, or with the empty string as the filter, there
\* is one shaped record per input record, in input order.
C6_FilterByTagUnlessEmpty ==
  SearchReturned =>
    IF args.objectType = Undefined \/ args.objectType = Str(<<>>)
    THEN ShapedIds = IdsOf(args.records.items)
    ELSE ShapedIds
           = IdsOf(SelectSeq(args.records.items,
                             LAMBDA r : TagEquals(r, args.objectType)))

\* Of three records the filter "people" keeps the first by its object tag
\* and the third by its parent_object tag, and drops the second.
C6_Witness ==
  /\ SearchReturned
  /\ args.objectType = Word("people")
  /\ Len(args.records.items) = 3
  /\ Get(args.records.items[1], "object") = Word("people")
  /\ Get(args.records.items[2], "object") = Word("companies")
  /\ Get(args.records.items[2], "parent_object") = Undefined
  /\ Get(args.records.items[3], "object") = Undefined
  /\ Get(args.records.items[3], "parent_object") = Word("people")
  /\ ShapedIds = <<Str(<<"r", "1">>), Str(<<"r", "3">>)>>

\* The input records the shaped records come from, in order (C6).
KeptRecords ==
  IF args.objectType = Undefined \/ args.objectType = Str(<<>>)
  THEN args.records.items
  ELSE SelectSeq(args.records.items, LAMBDA r : TagEquals(r, args.objectType))

\* Whether record r carries a non-empty string under key k.
HasTag(r, k) ==
  /\ k \in DOMAIN r.f
  /\ r.f[k].t = "string"
  /\ r.f[k] /= Str(<<>>)

ShapedTypes == [i \in 1..Len(result.items) |-> result.items[i].objectType]

\* C21 as the specification states it: the objectType of every shaped record
\* is the record's object tag if it has one, else the filter value if a
\* filter was given, else null.
C21_OwnTagElseFilter ==
  SearchReturned =>
    ShapedTypes
      = [i \in 1..Len(KeptRecords) |->
           IF HasTag(KeptRecords[i], "object") THEN KeptRecords[i].f["object"]
           ELSE IF args.objectType /= Undefined THEN args.objectType
           ELSE Null]

\* C21, amended: the objectType of every shaped record is the record's
\* object tag if it has one, else its parent_object tag if it has one, else
\* the filter value if a non-empty filter was given, else null.
C21_OwnTagElseParentElseFilter ==
  SearchReturned =>
    ShapedTypes
      = [i \in 1..Len(KeptRecords) |->
           IF HasTag(KeptRecords[i], "object") THEN KeptRecords[i].f["object"]
           ELSE IF HasTag(KeptRecords[i], "parent_object")
             THEN KeptRecords[i].f["parent_object"]
           ELSE IF args.objectType \notin {Undefined, Str(<<>>)}
             THEN args.objectType
           ELSE Null]

\* With no filter, a record that carries a parent_object tag and no object
\* tag is shaped with its parent_object as the type; a record that carries
\* both is shaped with its object tag.
C21_Witness ==
  /\ SearchReturned
  /\ args.objectType = Undefined
  /\ Len(args.records.items) = 2
  /\ ~HasTag(args.records.items[1], "object")
  /\ Get(args.records.items[1], "parent_object") = Word("people")
  /\ Get(args.records.items[2], "object") = Word("companies")
  /\ Get(args.records.items[2], "parent_object") = Word("people")
  /\ ShapedTypes = <<Word("people"), Word("companies")>>

(***************************************************************************)
(* Further claims about flattenValues (checked under SpecFlatten).         *)
(***************************************************************************)
IsPrimitive(v) == v.t \in {"string", "number", "boolean"}

\* A mapping whose keys hold primitives directly.
FlatMapping(v) ==
  /\ v.t = "object"
  /\ \A k \in DOMAIN v.f : IsPrimitive(v.f[k])

\* C11: flattenValues returns an already-flat mapping unchanged, so that
\* flattening its own output again changes nothing whenever that output
\* holds only primitives.
C11_FlatPassThrough ==
  FlattenReturned =>
    /\ FlatMapping(args.values) => result = args.values
    /\ FlatMapping(result) => flattenValues(result) = result

\* C14: a call on malformed or partial input (a null first element, an
\* absent collection) returns a fallback and does not raise.
C14_NeverRaises ==
  (pc = "done" /\ args.fn = "flattenValues") => result /= TypeError

(***************************************************************************)
(* Inputs of extractRecordName.                                            *)
(***************************************************************************)
\* A field set, or left out of, an object.
Field(k, choice) == IF choice = Undefined THEN <<>> ELSE k :> choice

NameParts == {Undefined, Str(<<>>), Str(<<" ">>), Word("Bob")}

\* The first elements of a name attribute.
NameVals ==
  {Obj(Field("full_name", full) @@ Field("first_name", first)
         @@ Field("last_name", last)) :
     full \in {Undefined, Str(<<>>), Word("Alice Smith")},
     first \in NameParts, last \in NameParts}
    \cup {Obj("value" :> v) :
            v \in {Word("Acme"), Num(7), Str(<<>>), Arr(<<>>), Null}}
    \cup {Word("Plain"), Str(<<" ">>), Null}

NameKeys ==
  {"name", "primary_name", "title", "company_name", "deal_name", "company"}

\* The id field of a record: none, compound with and without record_id,
\* a bare string, the empty string, a number.
RecordIds ==
  {Undefined, Obj("record_id" :> Word("rec-1")), Obj("foo" :> Word("x")),
   Word("plain-id"), Str(<<>>), Num(42)}

NameRecords ==
  {Obj(Field("id", id) @@ "values" :> Obj(k :> Arr(<<nv>>))) :
     id \in {Undefined, Obj("record_id" :> Word("rec-1"))},
     k \in NameKeys, nv \in NameVals}
    \cup {Obj(Field("id", id) @@ Field(w, v)) :
            id \in RecordIds, w \in {"values", "attributes"},
            v \in {Undefined, EmptyObj, Obj("name" :> Arr(<<>>)),
                   Obj("name" :> Word("Alice")),
                   Obj("title" :> Arr(<<Obj("value" :> Word("Big Deal"))>>))}}
    \cup {Obj("values" :> Obj("name" :> Arr(<<n>>) @@ "primary_name" :> Arr(<<p>>))) :
            n \in {Obj("foo" :> Word("x")), Obj("first_name" :> Word("Bob")), Null},
            p \in {Obj("full_name" :> Word("Carol")), Word("Plain"),
                   Obj("first_name" :> Word("Ann") @@ "last_name" :> Word("Lee"))}}
    \cup {Null, Undefined, EmptyObj, Word("rec-1")}

InitName ==
  /\ pc = "ready"
  /\ args \in {[fn |-> "extractRecordName", record |-> r] : r \in NameRecords}
  /\ result = NoResult
  /\ locals = <<>>
  /\ calls = <<>>
  /\ inflight = <<>>

Call_extractRecordName ==
  /\ pc = "ready"
  /\ args.fn = "extractRecordName"
  /\ result' = extractRecordName(args.record)
  /\ pc' = "done"
  /\ UNCHANGED <<args, locals, calls, inflight>>

NextName == Call_extractRecordName

SpecName == InitName /\ [][NextName]_vars

(***************************************************************************)
(* Claims about extractRecordName (checked under SpecName).                *)
(***************************************************************************)
NameReturned == pc = "done" /\ args.fn = "extractRecordName"

\* C12: extractRecordName never raises and never returns the empty string,
\* whatever the record, empty and whitespace-only name parts included.
C12_NeverEmpty ==
  NameReturned => result /= TypeError /\ result /= Str(<<>>)

\* A record none of whose name-like fields can resolve: it carries no
\* values, or empty ones.
NoNameField(record) ==
  \/ record.t /= "object"
  \/ \A w \in {"values", "attributes"} :
       w \in DOMAIN record.f => record.f[w] = EmptyObj

\* The identifier the claim falls back to.
FallbackId(record) ==
  IF record.t /= "object" \/ "id" \notin DOMAIN record.f THEN Word("Unknown")
  ELSE LET id == record.f["id"]
       IN IF id.t = "object" /\ "record_id" \in DOMAIN id.f THEN id.f["record_id"]
          ELSE IF id = Str(<<>>) THEN Word("Unknown")
          ELSE id

\* C13: when no name-like field resolves, the result is the inner record_id
\* of a compound id, else the bare id, else "Unknown", and it is a string
\* whatever the shape of the id.
C13_FallbackIsString ==
  (NameReturned /\ NoNameField(args.record)) =>
    /\ result = FallbackId(args.record)
    /\ result.t = "string"

\* The first element of the array under key k of the record's values.
FirstElementOf(record, k) == First(Get(ValuesOf(record), k))

\* Whether a first element carries a full name, a first or last name, a
\* plain string or a generic value.
CarriesName(x) == Truthy(x) /\ NameFromNameVal(x) /= NoResult

\* C24: name is inspected before primary_name, and whenever the first
\* element of either carries a full name, a first/last name, a plain string
\* or a generic value, the returned name is derived from that element; a
\* record whose name first element yields nothing and whose primary_name
\* first element has first_name/last_name returns the composed name.
C24_NameThenPrimaryName ==
  NameReturned =>
    LET n == FirstElementOf(args.record, "name")
        p == FirstElementOf(args.record, "primary_name")
    IN IF CarriesName(n) THEN result = NameFromNameVal(n)
       ELSE CarriesName(p) => result = NameFromNameVal(p)

(***************************************************************************)
(* Claims about the stages of computePipelineSummary (SpecPipeline).       *)
(***************************************************************************)
\* The entries the call scans: the array itself, or the data of a wrapper.
InputEntries ==
  IF args.entries.t = "array" THEN args.entries.items
  ELSE IF args.entries.t = "object" /\ "data" \in DOMAIN args.entries.f
            /\ args.entries.f["data"].t = "array"
    THEN args.entries.f["data"].items
    ELSE <<>>

\* A field of o that is present: the object carries it with a value that is
\* not empty.
Present(o, k) ==
  /\ o.t = "object"
  /\ k \in DOMAIN o.f
  /\ o.f[k] \notin {Null, Undefined, Str(<<>>)}

\* The first element of the stage attribute of an entry, if it has one.
StageValOf(entry) ==
  LET values == IF "entry_values" \in DOMAIN entry.f THEN entry.f["entry_values"]
                ELSE IF "values" \in DOMAIN entry.f THEN entry.f["values"]
                ELSE EmptyObj
  IN IF values.t = "object" /\ "stage" \in DOMAIN values.f
          /\ values.f["stage"].t = "array" /\ values.f["stage"].items /= <<>>
     THEN values.f["stage"].items[1]
     ELSE Undefined

\* The stage the specification resolves for an entry: the status title,
\* else the option title, else the raw value, else absent (null).
ResolvedStage(entry) ==
  LET sv == StageValOf(entry) IN
    IF Present(sv, "status") /\ Present(sv.f["status"], "title")
    THEN sv.f["status"].f["title"]
    ELSE IF Present(sv, "option") /\ Present(sv.f["option"], "title")
      THEN sv.f["option"].f["title"]
    ELSE IF Present(sv, "value") THEN sv.f["value"]
    ELSE Null

ResolvedLabel(entry) ==
  IF ResolvedStage(entry) = Null THEN Str(<<"No Stage">>) ELSE ResolvedStage(entry)

\* The distinct elements of a sequence, in the order of their first
\* occurrence.
RECURSIVE FirstSeen(_)
FirstSeen(seq) ==
  IF seq = <<>> THEN <<>>
  ELSE LET front == FirstSeen(SubSeq(seq, 1, Len(seq) - 1))
           last == seq[Len(seq)]
       IN IF \E i \in 1..Len(front) : front[i] = last THEN front
          ELSE Append(front, last)

StageLabels == [k \in 1..Len(result.stages) |-> result.stages[k].stage]

\* C18: the stages array holds one element per distinct stage label of the
\* entries, in the order in which the labels are first seen.
C18_FirstSeenOrder ==
  PipelineReturned =>
    StageLabels
      = FirstSeen([i \in 1..Len(InputEntries) |-> ResolvedLabel(InputEntries[i])])

\* The first label seen is neither the least in lexical order nor the most
\* frequent, and still comes first.
C18_Witness ==
  /\ PipelineReturned
  /\ Len(InputEntries) = 3
  /\ StageLabels = <<Word("Won"), Word("Qualified")>>
  /\ result.stages[1].count = 1
  /\ result.stages[2].count = 2

\* C19: the stage of each entry is the status title if present, else the
\* option title, else the raw value, else absent; an entry without a stage
\* is counted under "No Stage"; no label of the stages array is null or
\* empty.
C19_StageResolution ==
  PipelineReturned =>
    /\ \A i \in 1..Len(InputEntries) :
         result.entries[i].stage = ResolvedStage(InputEntries[i])
    /\ \A k \in 1..Len(result.stages) :
         /\ result.stages[k].stage \notin {Null, Undefined, Str(<<>>)}
         /\ result.stages[k].count
              = Cardinality({i \in 1..Len(InputEntries) :
                               ResolvedLabel(InputEntries[i]) = result.stages[k].stage})

\* An entry carrying a status title, an option title and a raw value
\* resolves to the status title, one carrying the last two to the option
\* title, and one without a stage is counted under "No Stage".
C19_Witness ==
  /\ PipelineReturned
  /\ Len(InputEntries) = 3
  /\ Present(StageValOf(InputEntries[1]), "status")
  /\ Present(StageValOf(InputEntries[1]), "option")
  /\ Present(StageValOf(InputEntries[1]), "value")
  /\ ~Present(StageValOf(InputEntries[2]), "status")
  /\ Present(StageValOf(InputEntries[2]), "option")
  /\ Present(StageValOf(InputEntries[2]), "value")
  /\ StageValOf(InputEntries[3]) = Undefined
  /\ StageLabels = <<Word("Qualified"), Word("Won"), Str(<<"No Stage">>)>>
  /\ result.entries[3].stage = Null

\* The identifier of an input entry: its entry_id, else its id.
EntryIdOf(entry) ==
  IF Present(entry, "entry_id") THEN entry.f["entry_id"]
  ELSE IF "id" \in DOMAIN entry.f THEN entry.f["id"]
  ELSE Undefined

\* The sum of the counts of the first n stages.
RECURSIVE CountSum(_)
CountSum(n) == IF n = 0 THEN 0 ELSE CountSum(n - 1) + result.stages[n].count

\* C27: totalEntries is the number of input entries, the entries output
\* holds one projection per input entry in input order, the counts of the
\* stages sum to totalEntries, and every stage counts at least one entry.
C27_CountsAddUp ==
  PipelineReturned =>
    /\ result.totalEntries = Len(InputEntries)
    /\ [i \in 1..Len(result.entries) |-> result.entries[i].id]
         = [i \in 1..Len(InputEntries) |-> EntryIdOf(InputEntries[i])]
    /\ CountSum(Len(result.stages)) = result.totalEntries
    /\ \A k \in 1..Len(result.stages) : result.stages[k].count >= 1

\* Three entries in two stages, one of them without a value: the counts are
\* two and one.
C27_Witness ==
  /\ PipelineReturned
  /\ Len(InputEntries) = 3
  /\ result.totalEntries = 3
  /\ Len(result.stages) = 2
  /\ result.stages[1].count = 2
  /\ result.stages[2].count = 1
  /\ \E i \in 1..3 : result.entries[i].value = Null
  /\ [i \in 1..3 |-> result.entries[i].id]
       = <<Str(<<"e", "1">>), Str(<<"e", "2">>), Str(<<"e", "3">>)>>

(***************************************************************************)
(* Claims about the references of enrichTasks (checked under SpecTasks).   *)
(***************************************************************************)
\* The id an assignee reference carries: the bare string, or the object's
\* referenced_actor_id, or else its id.
AssigneeId(a) ==
  IF a.t = "string" THEN a
  ELSE IF Present(a, "referenced_actor_id") THEN a.f["referenced_actor_id"]
  ELSE a.f["id"]

CarriesActorId(a) ==
  \/ a.t = "string" /\ a /= Str(<<>>)
  \/ Present(a, "referenced_actor_id")
  \/ Present(a, "id")

\* The id a linked-record reference carries: its record_id, or else its
\* target_record_id.
LinkedId(lr) ==
  IF Present(lr, "record_id") THEN lr.f["record_id"] ELSE lr.f["target_record_id"]

CarriesRecordId(lr) == Present(lr, "record_id") \/ Present(lr, "target_record_id")

\* The name a lookup has for an id, or else the prefix followed by the id.
NameOrLabel(lookup, id, prefix) ==
  IF id \in DOMAIN lookup /\ lookup[id] /= Str(<<>>) THEN lookup[id]
  ELSE Str(<<prefix>> \o id.v)

\* The list a task holds under a key, empty when the key is absent.
ListOf(t, k) ==
  IF k \in DOMAIN t.f /\ t.f[k].t = "array" THEN t.f[k].items ELSE <<>>

TaskIdOf(t) ==
  IF "id" \notin DOMAIN t.f THEN Undefined
  ELSE IF t.f["id"].t = "object" THEN t.f["id"].f["task_id"]
  ELSE t.f["id"]

\* Whether the enriched task e lists the references of the input task t as
\* the claim says: one name per reference, in the order of the input.
ResolvesReferences(t, e) ==
  LET as == ListOf(t, "assignees")
      lrs == ListOf(t, "linked_records")
  IN /\ e.id = TaskIdOf(t)
     /\ Len(e.assignees) = Len(as)
     /\ \A j \in 1..Len(as) :
          CarriesActorId(as[j])
            => e.assignees[j] = NameOrLabel(args.memberMap, AssigneeId(as[j]), "User ")
     /\ Len(e.linkedRecords) = Len(lrs)
     /\ \A j \in 1..Len(lrs) :
          CarriesRecordId(lrs[j])
            => e.linkedRecords[j]
                 = NameOrLabel(args.recordNameMap, LinkedId(lrs[j]), "Record ")

EnrichedTasks == result.open \o result.completed

\* C20: every assignee reference becomes the member lookup's name for its
\* id, or "User <id>"; every linked-record reference becomes the record
\* lookup's name for its id, or "Record <id>"; the output lists have the
\* length and order of the input lists.
C20_ReferencesResolved ==
  TasksReturned =>
    /\ \A i \in 1..Len(args.tasks.items) :
         \E k \in 1..Len(EnrichedTasks) :
           ResolvesReferences(args.tasks.items[i], EnrichedTasks[k])
    /\ \A k \in 1..Len(EnrichedTasks) :
         \E i \in 1..Len(args.tasks.items) :
           ResolvesReferences(args.tasks.items[i], EnrichedTasks[k])

\* A task with an object assignee the lookup has no name for, a bare id it
\* has a name for, a linked record under target_record_id without a name and
\* one under record_id with a name.
C20_Witness ==
  /\ TasksReturned
  /\ Len(args.tasks.items) = 1
  /\ ListOf(args.tasks.items[1], "assignees")
       = <<Obj([id |-> Word("unknown")]), Word("m2")>>
  /\ result.open[1].assignees = <<Str(<<"User ", "unknown">>), Word("Bob Jones")>>
  /\ result.open[1].linkedRecords = <<Str(<<"Record ", "rec99">>), Word("Acme Corp")>>

\* How many tasks of the input carry the id and a completion flag that is
\* truthy (done) or falsy.
InputCount(id, done) ==
  Cardinality({i \in 1..Len(args.tasks.items) :
                 /\ TaskIdOf(args.tasks.items[i]) = id
                 /\ Truthy(Get(args.tasks.items[i], "is_completed")) = done})

\* How many tasks of an output list carry the id.
OutputCount(list, id) ==
  Cardinality({i \in 1..Len(list) : list[i].id = id})

\* C28: open and completed partition the input: every input task appears
\* exactly once, in open if its is_completed flag is falsy and in completed
\* if it is truthy, so the two lengths sum to the length of the input.
C28_OpenCompletedPartition ==
  TasksReturned =>
    /\ Len(result.open) + Len(result.completed) = Len(args.tasks.items)
    /\ \A i \in 1..Len(args.tasks.items) :
         LET id == TaskIdOf(args.tasks.items[i])
         IN /\ OutputCount(result.open, id) = InputCount(id, FALSE)
            /\ OutputCount(result.completed, id) = InputCount(id, TRUE)
    /\ \A i \in 1..Len(result.open) : ~result.open[i].isCompleted
    /\ \A i \in 1..Len(result.completed) : result.completed[i].isCompleted

\* Of three tasks the second is completed: it alone is in completed, the
\* first and the third are in open.
C28_Witness ==
  /\ TasksReturned
  /\ Len(args.tasks.items) = 3
  /\ ~Truthy(Get(args.tasks.items[1], "is_completed"))
  /\ Truthy(Get(args.tasks.items[2], "is_completed"))
  /\ ~Truthy(Get(args.tasks.items[3], "is_completed"))
  /\ {result.open[i].id : i \in 1..Len(result.open)}
       = {Str(<<"t", "1">>), Str(<<"t", "3">>)}
  /\ Len(result.open) = 2
  /\ [i \in 1..Len(result.completed) |-> result.completed[i].id]
       = <<Str(<<"t", "2">>)>>

(***************************************************************************)
(* The tool handlers (index.ts).                                           *)
(***************************************************************************)
\* The outcome of a CRM call: the promise resolves with a response carrying
\* data, or rejects with an error.
Resolved(data) == [ok |-> TRUE, data |-> data]
Rejected(err) == [ok |-> FALSE, err |-> err]

\* An Error object with its message.
ErrorOf(message) == [t |-> "Error", message |-> message]

\* The TypeError a helper raises, as the catch clause receives it.
RaisedTypeError == ErrorOf(<<"Cannot read properties">>)

\* err instanceof Error ? err.message : String(err)
ErrMessage(err) == IF err.t = "Error" THEN err.message ELSE ToStr(err)

\* JSON.stringify(value, null, 2): the text that serializes the value.
JsonText(value) == [t |-> "json", of |-> value]

\* A tool result without isError.
SuccessPayload(text) == [isError |-> FALSE, text |-> text]

\* An error payload that names one fixed tool.
errorResult_FixedName(toolName, err) ==
  [isError |-> TRUE,
   text |-> Str(<<"Error in ", "search_records", ": ">> \o ErrMessage(err))]

errorResult(toolName, err) ==
  [isError |-> TRUE,
   text |-> Str(<<"Error in ", toolName, ": ">> \o ErrMessage(err))]

\* (resp.data as any)?.data || resp.data || []
Unwrap(data) == Or(Get(data, "data"), Or(data, Arr(<<>>)))

\* Array.isArray(x) ? x : []
ArrayOrEmpty(x) == IF x.t = "array" THEN x ELSE Arr(<<>>)

\* items.slice(0, n) for n >= 0
Slice(items, n) == SubSeq(items, 1, IF n < Len(items) THEN n ELSE Len(items))

\* The steps of an invocation that has issued a call and awaits its outcome.
Issue(call, at) ==
  /\ calls' = Append(calls, call)
  /\ pc' = at

Return(payload) ==
  /\ result' = payload
  /\ pc' = "done"

(***************************************************************************)
(* search_records                                                          *)
(***************************************************************************)
\* The call of the handler: a global search when a query is given, else a
\* listing of the object type with the limit.
Search_Start ==
  /\ pc = "ready"
  /\ args.fn = "search_records"
  /\ IF Truthy(args.query)
     THEN Issue([api |-> "v2ObjectsRecordsSearchPost", query |-> args.query],
                "search_await")
     ELSE Issue([api |-> "v2ObjectsObjectRecordsQueryPost",
                 object |-> args.objectType,
                 limit |-> Coalesce(args.limit, Num(25))],
                "search_await")
  /\ UNCHANGED <<args, result, locals, inflight>>

\* What the handler returns once its call has resolved with data.
SearchPayload(data, objectType) ==
  LET records == ArrayOrEmpty(Unwrap(data))
      shaped == shapeSearchResults(records, objectType)
  IN IF shaped = TypeError THEN errorResult("search_records", RaisedTypeError)
     ELSE SuccessPayload(JsonText([totalResults |-> Len(shaped.items),
                                   records |-> shaped]))

Search_Resume ==
  /\ pc = "search_await"
  /\ LET outcome == args.crm[calls[Len(calls)].api] IN
       IF outcome.ok
       THEN Return(SearchPayload(outcome.data, args.objectType))
       ELSE Return(errorResult("search_records", outcome.err))
  /\ UNCHANGED <<args, locals, calls, inflight>>

(***************************************************************************)
(* get_pipeline                                                            *)
(***************************************************************************)
UpperCase == <<"A", "B", "C", "D", "E", "F", "G", "H", "I", "J", "K", "L", "M",
               "N", "O", "P", "Q", "R", "S", "T", "U", "V", "W", "X", "Y", "Z">>
LowerCase == <<"a", "b", "c", "d", "e", "f", "g", "h", "i", "j", "k", "l", "m",
               "n", "o", "p", "q", "r", "s", "t", "u", "v", "w", "x", "y", "z">>

\* String.prototype.toLowerCase
ToLowerCase(s) ==
  [i \in 1..Len(s) |->
     IF \E j \in 1..Len(UpperCase) : UpperCase[j] = s[i]
     THEN LowerCase[CHOOSE j \in 1..Len(UpperCase) : UpperCase[j] = s[i]]
     ELSE s[i]]

\* String.prototype.includes
Includes(s, sub) ==
  \E i \in 0..(Len(s) - Len(sub)) : SubSeq(s, i + 1, i + Len(sub)) = sub

\* l.id?.list_id || l.id
ListIdOf(l) == Or(Get(Get(l, "id"), "list_id"), Get(l, "id"))

\* Whether the callback of find throws on l: l is null or undefined, or its
\* name is neither a string nor null nor undefined.
MatchThrows(l) ==
  \/ l.t \in {"null", "undefined"}
  \/ Get(l, "name").t \notin {"string", "null", "undefined"}

\* A callback of find that accepts every list.
MatchesList_Always(l, listName) == TRUE

\* l.name?.toLowerCase().includes(listName.toLowerCase()) || id === listName
MatchesList(l, listName) ==
  \/ /\ Get(l, "name").t = "string"
     /\ Includes(ToLowerCase(Get(l, "name").v), ToLowerCase(listName.v))
  \/ ListIdOf(l) = listName

\* listArr.find(...): the first list that matches, undefined when none does,
\* a TypeError when the callback throws before a match.
RECURSIVE FindList(_, _)
FindList(items, listName) ==
  IF items = <<>> THEN Undefined
  ELSE IF MatchThrows(Head(items)) THEN TypeError
  ELSE IF MatchesList(Head(items), listName) THEN Head(items)
  ELSE FindList(Tail(items), listName)

\* The catalog entry of a list.
CatalogEntry(l) ==
  [id |-> ListIdOf(l), name |-> Get(l, "name"), objectType |-> Get(l, "parent_object")]

\* The payload of a call without listName.
CatalogPayload(lists) ==
  IF lists.t = "array"
       /\ \E i \in 1..Len(lists.items) : lists.items[i].t \in {"null", "undefined"}
  THEN errorResult("get_pipeline", RaisedTypeError)
  ELSE SuccessPayload(JsonText(
         [message |-> "Available lists/pipelines. Provide a listName to see entries.",
          lists |-> IF lists.t = "array"
                    THEN Arr([i \in 1..Len(lists.items) |-> CatalogEntry(lists.items[i])])
                    ELSE lists]))

\* listArr.map((l) => l.name).join(", ")
RECURSIVE JoinNames(_)
JoinNames(items) ==
  IF items = <<>> THEN <<>>
  ELSE (IF Get(Head(items), "name").t \in {"null", "undefined"} THEN <<>>
        ELSE ToStr(Get(Head(items), "name")))
       \o (IF Len(items) > 1 THEN <<", ">> \o JoinNames(Tail(items)) ELSE <<>>)

NoListPayload(listName, listArr) ==
  SuccessPayload(Str(<<"No list found matching \"">> \o listName.v
                       \o <<"\". Available: ">> \o JoinNames(listArr.items)))

Pipeline_Start ==
  /\ pc = "ready"
  /\ args.fn = "get_pipeline"
  /\ Issue([api |-> "v2ListsGet"], "pipeline_await_lists")
  /\ UNCHANGED <<args, result, locals, inflight>>

\* From the lists response to the catalog, the no-match message, an error,
\* or the query of the matched list's entries.
Pipeline_Lists ==
  /\ pc = "pipeline_await_lists"
  /\ LET outcome == args.crm["v2ListsGet"] IN
       IF ~outcome.ok
       THEN Return(errorResult("get_pipeline", outcome.err))
            /\ UNCHANGED <<locals, calls>>
       ELSE LET lists == Unwrap(outcome.data)
                listArr == ArrayOrEmpty(lists)
                matched == FindList(listArr.items, args.listName)
            IN IF ~Truthy(args.listName)
               THEN Return(CatalogPayload(lists)) /\ UNCHANGED <<locals, calls>>
               ELSE IF matched = TypeError
                 THEN Return(errorResult("get_pipeline", RaisedTypeError))
                      /\ UNCHANGED <<locals, calls>>
               ELSE IF ~Truthy(matched)
                 THEN Return(NoListPayload(args.listName, listArr))
                      /\ UNCHANGED <<locals, calls>>
               ELSE /\ locals' = [matched |-> matched, listId |-> ListIdOf(matched)]
                    /\ Issue([api |-> "v2ListsListEntriesQueryPost",
                              list |-> ListIdOf(matched)],
                             "pipeline_await_entries")
                    /\ UNCHANGED result
  /\ UNCHANGED <<args, inflight>>

\* The record name map after the first n entries of the loop.
RECURSIVE NameMapAfter(_, _)
NameMapAfter(entryList, n) ==
  IF n = 0 THEN <<>>
  ELSE LET m == NameMapAfter(entryList, n - 1)
           entry == entryList[n]
           rid == Or(Get(entry, "record_id"), Get(entry, "parent_record_id"))
           name == extractRecordName(
                     Obj("values" :> Or(Get(entry, "entry_values"), Get(entry, "values"))))
       IN IF Truthy(rid) /\ rid \notin DOMAIN m /\ name /= Word("Unknown")
          THEN m @@ (rid :> name)
          ELSE m

\* What the handler returns once the entries query has resolved with data.
PipelinePayload(data, listId, matched) ==
  LET entries == Unwrap(data)
      entryList == ArrayOrEmpty(entries).items
      summary == computePipelineSummary(listId, Get(matched, "name"), entries,
                                        NameMapAfter(entryList, Len(entryList)))
  IN IF \E i \in 1..Len(entryList) : entryList[i].t \in {"null", "undefined"}
     THEN errorResult("get_pipeline", RaisedTypeError)
     ELSE IF summary = TypeError THEN errorResult("get_pipeline", RaisedTypeError)
     ELSE SuccessPayload(JsonText(summary))

Pipeline_Entries ==
  /\ pc = "pipeline_await_entries"
  /\ LET outcome == args.crm["v2ListsListEntriesQueryPost"] IN
       IF outcome.ok
       THEN Return(PipelinePayload(outcome.data, locals.listId, locals.matched))
       ELSE Return(errorResult("get_pipeline", outcome.err))
  /\ UNCHANGED <<args, locals, calls, inflight>>

(***************************************************************************)
(* get_record_details                                                      *)
(***************************************************************************)
\* The notes of a record, from the outcome of the notes fetch: the matching
\* notes, at most ten; none when the fetch rejects, when its data is no
\* array, or when the filter throws on a null or undefined note.
NotesFor(outcome, objectType, recordId) ==
  IF ~outcome.ok THEN Arr(<<>>)
  ELSE LET allNotes == Unwrap(outcome.data) IN
    IF allNotes.t /= "array" THEN Arr(<<>>)
    ELSE IF \E i \in 1..Len(allNotes.items) :
              allNotes.items[i].t \in {"null", "undefined"}
      THEN Arr(<<>>)
    ELSE Arr(Slice(SelectSeq(allNotes.items,
                             LAMBDA n : /\ Get(n, "parent_object") = objectType
                                        /\ Get(n, "parent_record_id") = recordId),
                   10))

Details_Start ==
  /\ pc = "ready"
  /\ args.fn = "get_record_details"
  /\ Issue([api |-> "v2ObjectsObjectRecordsRecordIdGet",
            object |-> args.objectType, recordId |-> args.recordId],
           "details_await_record")
  /\ UNCHANGED <<args, result, locals, inflight>>

Details_Record ==
  /\ pc = "details_await_record"
  /\ LET outcome == args.crm["v2ObjectsObjectRecordsRecordIdGet"] IN
       IF ~outcome.ok
       THEN Return(errorResult("get_record_details", outcome.err))
            /\ UNCHANGED <<locals, calls>>
       ELSE LET record == Or(Get(outcome.data, "data"), outcome.data)
                flat == flattenValues(Or(Get(record, "values"), EmptyObj))
            IN IF flat = TypeError
               THEN Return(errorResult("get_record_details", RaisedTypeError))
                    /\ UNCHANGED <<locals, calls>>
               ELSE /\ locals' = [record |-> record,
                                  name |-> extractRecordName(record),
                                  flat |-> flat,
                                  notes |-> Arr(<<>>),
                                  entries |-> Arr(<<>>)]
                    /\ Issue([api |-> "v2NotesGet"], "details_await_notes")
                    /\ UNCHANGED result
  /\ UNCHANGED <<args, inflight>>

Details_Notes ==
  /\ pc = "details_await_notes"
  /\ locals' = [locals EXCEPT !.notes =
                  NotesFor(args.crm["v2NotesGet"], args.objectType, args.recordId)]
  /\ Issue([api |-> "v2ObjectsObjectRecordsRecordIdEntriesGet",
            object |-> args.objectType, recordId |-> args.recordId],
           "details_await_entries")
  /\ UNCHANGED <<args, result, inflight>>

Details_Entries ==
  /\ pc = "details_await_entries"
  /\ LET outcome == args.crm["v2ObjectsObjectRecordsRecordIdEntriesGet"]
         entries == IF outcome.ok THEN outcome.data ELSE locals.entries
     IN /\ locals' = [locals EXCEPT !.entries = entries]
        /\ Return(SuccessPayload(JsonText(
             [name |-> locals.name,
              flatValues |-> locals.flat,
              allValues |-> Or(Get(locals.record, "values"), EmptyObj),
              notes |-> locals.notes,
              entries |-> entries])))
  /\ UNCHANGED <<args, calls, inflight>>

(***************************************************************************)
(* list_tasks                                                              *)
(***************************************************************************)
\* memberMap.set(id, name)
MapSet(m, id, name) ==
  [x \in DOMAIN m \cup {id} |-> IF x = id THEN name ELSE m[x]]

\* The member map after the loop has run over the first n members, the loop
\* ending where it throws on a null or undefined member.
RECURSIVE MembersAfter(_, _)
MembersAfter(members, n) ==
  IF n = 0 THEN <<>>
  ELSE IF \E i \in 1..n : members[i].t \in {"null", "undefined"}
    THEN MembersAfter(members, n - 1)
  ELSE LET m == members[n]
           id == Or(Get(Get(m, "id"), "workspace_member_id"), Get(m, "id"))
           name == Or(Get(m, "name"),
                      Or(Get(m, "email"), Str(<<"Member ">> \o ToStr(id))))
       IN MapSet(MembersAfter(members, n - 1), id, name)

\* fetchWorkspaceMembers: never rejects; an absent API, a rejected fetch or
\* data that is no array leave the map empty.
fetchWorkspaceMembers(hasApi, outcome) ==
  IF ~hasApi \/ ~outcome.ok THEN <<>>
  ELSE LET members == Unwrap(outcome.data) IN
    IF members.t = "array" THEN MembersAfter(members.items, Len(members.items))
    ELSE <<>>

\* Promise.all over the task fetch and fetchWorkspaceMembers(): both calls
\* are issued before the handler awaits.
Tasks_Start ==
  /\ pc = "ready"
  /\ args.fn = "list_tasks"
  /\ calls' = calls \o <<[api |-> "v2TasksGet"]>>
                \o (IF args.hasMembersApi
                    THEN <<[api |-> "v2WorkspaceMembersGet"]>> ELSE <<>>)
  /\ pc' = "tasks_await"
  /\ UNCHANGED <<args, result, locals, inflight>>

\* What the handler returns once the task fetch has resolved with data.
TasksPayload(data, limit, memberMap) ==
  LET tasks == Unwrap(data)
      taskList == IF tasks.t = "array"
                  THEN Arr(Slice(tasks.items, Coalesce(limit, Num(25)).v))
                  ELSE Arr(<<>>)
      enriched == enrichTasks(taskList, memberMap, <<>>)
  IN IF enriched = TypeError THEN errorResult("list_tasks", RaisedTypeError)
     ELSE SuccessPayload(JsonText([totalOpen |-> Len(enriched.open),
                                   totalCompleted |-> Len(enriched.completed),
                                   open |-> enriched.open,
                                   completed |-> enriched.completed]))

Tasks_Resume ==
  /\ pc = "tasks_await"
  /\ LET outcome == args.crm["v2TasksGet"] IN
       IF outcome.ok
       THEN Return(TasksPayload(outcome.data, args.limit,
                                fetchWorkspaceMembers(args.hasMembersApi,
                                                      args.crm["v2WorkspaceMembersGet"])))
       ELSE Return(errorResult("list_tasks", outcome.err))
  /\ UNCHANGED <<args, locals, calls, inflight>>

(***************************************************************************)
(* get_recent_activity                                                     *)
(***************************************************************************)
\* Whether evaluating x.<field>?.some(r => r.<key> === recordId, ...) throws:
\* x is null or undefined, the field holds something that is no array, or a
\* null or undefined reference is reached before a match.
RECURSIVE SomeThrows(_, _, _)
SomeThrows(refs, keys, recordId) ==
  IF refs = <<>> THEN FALSE
  ELSE IF Head(refs).t \in {"null", "undefined"} THEN TRUE
  ELSE IF \E k \in keys : Get(Head(refs), k) = recordId THEN FALSE
  ELSE SomeThrows(Tail(refs), keys, recordId)

LinkThrows(x, field, keys, recordId) ==
  \/ x.t \in {"null", "undefined"}
  \/ /\ Get(x, field).t \notin {"null", "undefined", "array"}
  \/ /\ Get(x, field).t = "array"
     /\ SomeThrows(Get(x, field).items, keys, recordId)

\* x.<field>?.some(...) on an x it does not throw on.
LinkedTo(x, field, keys, recordId) ==
  /\ Get(x, field).t = "array"
  /\ \E i \in 1..Len(Get(x, field).items) :
       \E k \in keys : Get(Get(x, field).items[i], k) = recordId

\* The meetings or threads of a record, from the outcome of their fetch.
LinkedFor(outcome, field, keys, recordId) ==
  IF ~outcome.ok THEN Arr(<<>>)
  ELSE LET all == Unwrap(outcome.data) IN
    IF all.t /= "array" THEN Arr(<<>>)
    ELSE IF \E i \in 1..Len(all.items) :
              LinkThrows(all.items[i], field, keys, recordId)
      THEN Arr(<<>>)
    ELSE Arr(Slice(SelectSeq(all.items,
                             LAMBDA x : LinkedTo(x, field, keys, recordId)),
                   10))

Activity_Start ==
  /\ pc = "ready"
  /\ args.fn = "get_recent_activity"
  /\ locals' = [notes |-> Arr(<<>>), meetings |-> Arr(<<>>), threads |-> Arr(<<>>)]
  /\ Issue([api |-> "v2NotesGet"], "activity_await_notes")
  /\ UNCHANGED <<args, result, inflight>>

\* The notes step with a rejected fetch ending the invocation in an error.
Activity_Notes_Failing ==
  /\ pc = "activity_await_notes"
  /\ IF args.crm["v2NotesGet"].ok
     THEN /\ locals' = [locals EXCEPT !.notes =
                          NotesFor(args.crm["v2NotesGet"], args.objectType,
                                   args.recordId)]
          /\ Issue([api |-> "v2MeetingsGet"], "activity_await_meetings")
          /\ UNCHANGED <<args, result, inflight>>
     ELSE /\ Return(errorResult("get_recent_activity", args.crm["v2NotesGet"].err))
          /\ UNCHANGED <<args, locals, calls, inflight>>

Activity_Notes ==
  /\ pc = "activity_await_notes"
  /\ locals' = [locals EXCEPT !.notes =
                  NotesFor(args.crm["v2NotesGet"], args.objectType, args.recordId)]
  /\ Issue([api |-> "v2MeetingsGet"], "activity_await_meetings")
  /\ UNCHANGED <<args, result, inflight>>

Activity_Meetings ==
  /\ pc = "activity_await_meetings"
  /\ locals' = [locals EXCEPT !.meetings =
                  LinkedFor(args.crm["v2MeetingsGet"], "associated_records",
                            {"record_id", "target_record_id"}, args.recordId)]
  /\ Issue([api |-> "v2ThreadsGet"], "activity_await_threads")
  /\ UNCHANGED <<args, result, inflight>>

\* What the handler returns from the three lists.
ActivityPayload(notes, meetings, threads) ==
  LET timeline == buildActivityTimeline(notes, meetings, threads) IN
    IF timeline = TypeError THEN errorResult("get_recent_activity", RaisedTypeError)
    ELSE SuccessPayload(JsonText([totalEvents |-> Len(timeline.items),
                                  timeline |-> timeline]))

Activity_Threads ==
  /\ pc = "activity_await_threads"
  /\ locals' = [locals EXCEPT !.threads =
                  LinkedFor(args.crm["v2ThreadsGet"], "linked_records",
                            {"record_id"}, args.recordId)]
  /\ Return(ActivityPayload(locals'.notes, locals'.meetings, locals'.threads))
  /\ UNCHANGED <<args, calls, inflight>>

(***************************************************************************)
(* Invocations of the tools: the input of the tool and, for each CRM call  *)
(* the handler can make, the outcome the call will have.                   *)
(***************************************************************************)
\* The rejections of a CRM call: an Error, and a thrown string.
Failures == {Rejected(ErrorOf(<<"Unauthorized">>)), Rejected(Word("timeout"))}

\* The outcomes of a call over the data it can resolve with.
Outcomes(datas) == Failures \cup {Resolved(data) : data \in datas}

\* Data as the SDK hands it over: bare, or wrapped in { data: ... }.
Wrapped(x) == Obj("data" :> x)

TheObjectType == Word("people")
TheRecordId == Word("rec-1")

FoundRecords ==
  Arr(<<TaggedRecord(1, "object" :> Word("people")),
        TaggedRecord(2, "object" :> Word("companies"))>>)

FoundPeople ==
  Arr(<<TaggedRecord(1, "object" :> Word("people")),
        TaggedRecord(2, "object" :> Word("people"))>>)

SearchInvocations ==
  {[fn |-> "search_records", objectType |-> TheObjectType, query |-> q,
    limit |-> l,
    crm |-> [api \in {"v2ObjectsRecordsSearchPost",
                      "v2ObjectsObjectRecordsQueryPost"} |-> o]] :
     q \in {Undefined, Str(<<>>), Word("alice")},
     l \in {Undefined, Num(1)},
     o \in Outcomes({FoundRecords, Wrapped(FoundRecords), FoundPeople, Undefined,
                     Arr(<<Null>>), Obj("foo" :> Word("bar"))})}

SalesList ==
  Obj("id" :> Obj("list_id" :> Word("list-1"))
        @@ "name" :> Str(<<"S", "a", "l", "e", "s">>)
        @@ "parent_object" :> Word("deals"))
PresalesList ==
  Obj("id" :> Obj("list_id" :> Word("list-3"))
        @@ "name" :> Str(<<"P", "r", "e", "s", "a", "l", "e", "s">>)
        @@ "parent_object" :> Word("deals"))
HiringList == Obj("id" :> Word("list-2") @@ "name" :> Str(<<"H", "i", "r", "e">>))
NamelessList == Obj("id" :> Word("list-4"))
NumberedList == Obj("id" :> Word("list-9") @@ "name" :> Num(7))

ListsData ==
  {Arr(<<HiringList, PresalesList, SalesList>>),
   Wrapped(Arr(<<NamelessList, SalesList, HiringList>>)),
   Arr(<<NumberedList, SalesList>>),
   Arr(<<SalesList, Null>>),
   Arr(<<>>), Undefined, Obj("foo" :> Word("bar"))}

ListNames ==
  {Undefined, Str(<<>>), Str(<<"s", "a", "l">>), Str(<<"S", "A", "L", "E", "S">>),
   Word("list-2"), Word("list-4"), Word("zzz")}

PipelineEntries ==
  Arr(<<CoreEntry(1, Obj(StatusStage("Qualified")
                           @@ "name" :> Arr(<<Obj("value" :> Word("Acme Deal"))>>)
                           @@ "value" :> Arr(<<Obj([currency_value |-> Num(5000)])>>))),
        CoreEntry(2, Obj(StatusStage("Qualified")))>>)

EntriesData ==
  {PipelineEntries, Wrapped(PipelineEntries), Undefined, Arr(<<Null>>)}

PipelineInvocations ==
  {[fn |-> "get_pipeline", listName |-> n,
    crm |-> "v2ListsGet" :> lo @@ "v2ListsListEntriesQueryPost" :> eo] :
     n \in ListNames, lo \in Outcomes(ListsData), eo \in Outcomes(EntriesData)}

PersonRecord ==
  Obj("id" :> Obj("record_id" :> TheRecordId) @@ "values" :> PersonValues)

NotesData ==
  {Arr(<<Obj("id" :> Obj("note_id" :> Word("n1"))
               @@ "parent_object" :> TheObjectType
               @@ "parent_record_id" :> TheRecordId
               @@ "created_at" :> Date(<<"1", "0">>)),
         Obj("id" :> Obj("note_id" :> Word("n2"))
               @@ "parent_object" :> TheObjectType
               @@ "parent_record_id" :> Word("rec-2")
               @@ "created_at" :> Date(<<"1", "5">>))>>),
   Arr(<<Null>>), Undefined}

NotesOutcomes ==
  {Rejected(ErrorOf(<<"Unauthorized">>))}
    \cup {Resolved(d) : d \in NotesData \cup {Wrapped(d) : d \in NotesData}}

DetailsInvocations ==
  {[fn |-> "get_record_details", objectType |-> TheObjectType,
    recordId |-> TheRecordId,
    crm |-> "v2ObjectsObjectRecordsRecordIdGet" :> ro @@ "v2NotesGet" :> no
              @@ "v2ObjectsObjectRecordsRecordIdEntriesGet" :> eo] :
     ro \in Outcomes({PersonRecord, Wrapped(PersonRecord), Undefined,
                      Obj("values" :> Obj("name" :> Arr(<<Null>>)))}),
     no \in NotesOutcomes,
     eo \in {Rejected(Word("timeout")), Resolved(PipelineEntries),
             Resolved(Undefined)}}

FetchedTasks ==
  Arr(<<Obj("id" :> Obj("task_id" :> Word("t1"))
              @@ "content_plaintext" :> Word("Follow up")
              @@ "deadline" :> Date(<<"1", "5">>)
              @@ "assignees" :> Arr(<<Obj([referenced_actor_id |-> Word("m1")]),
                                      Word("m2"), Word("m9")>>)
              @@ "linked_records" :> Arr(<<Obj([record_id |-> Word("r1")])>>)),
        Obj("id" :> Obj("task_id" :> Word("t2"))
              @@ "is_completed" :> Bool(TRUE)
              @@ "deadline" :> Date(<<"1", "0">>))>>)

AliceMember ==
  Obj("id" :> Obj("workspace_member_id" :> Word("m1")) @@ "name" :> Word("Alice Smith"))
BobMember == Obj("id" :> Word("m2") @@ "email" :> Word("bob@test.com"))
PlainMember == Obj("id" :> Word("m9"))

MembersData ==
  {Arr(<<AliceMember, BobMember, PlainMember>>),
   Wrapped(Arr(<<AliceMember, BobMember>>)),
   Arr(<<AliceMember, Null, BobMember>>),
   Undefined, Obj("foo" :> Word("bar"))}

TasksInvocations ==
  {[fn |-> "list_tasks", limit |-> l, hasMembersApi |-> h,
    crm |-> "v2TasksGet" :> to @@ "v2WorkspaceMembersGet" :> mo] :
     l \in {Undefined, Num(1)}, h \in BOOLEAN,
     to \in Outcomes({FetchedTasks, Wrapped(FetchedTasks), Undefined, Arr(<<Null>>)}),
     mo \in {Rejected(ErrorOf(<<"Unauthorized">>))}
              \cup {Resolved(d) : d \in MembersData}}

MeetingsData ==
  {Arr(<<Obj("id" :> Obj("meeting_id" :> Word("mt1"))
               @@ "start_time" :> Date(<<"2", "0">>)
               @@ "associated_records" :> Arr(<<Obj([record_id |-> TheRecordId])>>)),
         Obj("id" :> Obj("meeting_id" :> Word("mt2"))
               @@ "associated_records" :>
                    Arr(<<Obj([record_id |-> Word("rec-2")]),
                          Obj([target_record_id |-> TheRecordId])>>)),
         Obj("id" :> Obj("meeting_id" :> Word("mt3"))
               @@ "start_time" :> Date(<<"1", "5">>))>>),
   Arr(<<Obj("associated_records" :> Word("text"))>>),
   Arr(<<Obj("associated_records" :> Arr(<<Null>>))>>),
   Arr(<<Null>>)}

ThreadsData ==
  {Arr(<<Obj("id" :> Obj("thread_id" :> Word("th1"))
               @@ "created_at" :> Date(<<"1", "5">>)
               @@ "linked_records" :> Arr(<<Obj([record_id |-> TheRecordId])>>)),
         Obj("id" :> Obj("thread_id" :> Word("th2"))
               @@ "linked_records" :> Arr(<<Obj([target_record_id |-> TheRecordId])>>)),
         Obj("id" :> Obj("thread_id" :> Word("th3")))>>),
   Arr(<<Undefined>>), Undefined}

ActivityInvocations ==
  {[fn |-> "get_recent_activity", objectType |-> TheObjectType,
    recordId |-> TheRecordId,
    crm |-> "v2NotesGet" :> no @@ "v2MeetingsGet" :> mo @@ "v2ThreadsGet" :> to] :
     no \in NotesOutcomes,
     mo \in {Rejected(Word("timeout"))}
              \cup {Resolved(d) : d \in MeetingsData \cup {Wrapped(d) : d \in MeetingsData}},
     to \in {Rejected(ErrorOf(<<"Unauthorized">>))}
              \cup {Resolved(d) : d \in ThreadsData}}

InitTools ==
  /\ pc = "ready"
  /\ args \in SearchInvocations \cup PipelineInvocations \cup DetailsInvocations
                \cup TasksInvocations \cup ActivityInvocations
  /\ result = NoResult
  /\ locals = <<>>
  /\ calls = <<>>
  /\ inflight = <<>>

NextTools ==
  \/ Search_Start \/ Search_Resume
  \/ Pipeline_Start \/ Pipeline_Lists \/ Pipeline_Entries
  \/ Details_Start \/ Details_Record \/ Details_Notes \/ Details_Entries
  \/ Tasks_Start \/ Tasks_Resume
  \/ Activity_Start \/ Activity_Notes \/ Activity_Meetings \/ Activity_Threads

SpecTools == InitTools /\ [][NextTools]_vars

(***************************************************************************)
(* Claims about the tool handlers (checked under SpecTools).               *)
(***************************************************************************)
ToolNames ==
  {"search_records", "get_pipeline", "get_record_details", "list_tasks",
   "get_recent_activity"}

\* The fetches a handler makes for enrichment only.
OptionalCalls ==
  {"v2NotesGet", "v2MeetingsGet", "v2ThreadsGet", "v2WorkspaceMembersGet",
   "v2ObjectsObjectRecordsRecordIdEntriesGet"}

ToolReturned == pc = "done" /\ args.fn \in ToolNames

\* The message of what a call rejected with.
MessageOf(err) ==
  IF err.t = "Error" THEN err.message
  ELSE IF err.t = "string" THEN err.v
  ELSE <<err.t>>

Issued(api) == \E i \in 1..Len(calls) : calls[i].api = api

\* The positions at which an invocation awaits the outcome of a call; the
\* handler has a continuation for each of them.
AwaitPositions ==
  [search_records |-> {"search_await"},
   get_pipeline |-> {"pipeline_await_lists", "pipeline_await_entries"},
   get_record_details |-> {"details_await_record", "details_await_notes",
                           "details_await_entries"},
   list_tasks |-> {"tasks_await"},
   get_recent_activity |-> {"activity_await_notes", "activity_await_meetings",
                            "activity_await_threads"}]

\* How far an invocation has come.
PositionRank(p) ==
  CASE p = "ready" -> 0
    [] p \in {"search_await", "pipeline_await_lists", "details_await_record",
              "tasks_await", "activity_await_notes"} -> 1
    [] p \in {"pipeline_await_entries", "details_await_notes",
              "activity_await_meetings"} -> 2
    [] p \in {"details_await_entries", "activity_await_threads"} -> 3
    [] p = "done" -> 4

\* What holds of an invocation at every moment: before it returns it has
\* no result and is at the start or at an await of its handler; once it has
\* returned it holds exactly one payload, a success or an error, and if a
\* non-optional CRM call it made was rejected, the payload is the error
\* "Error in <tool>: <message>" for the invoked tool.
ErrorPayloadOnRejection ==
  /\ args.fn \in ToolNames
  /\ pc /= "done" =>
       /\ result = NoResult
       /\ pc \in {"ready"} \cup AwaitPositions[args.fn]
  /\ ToolReturned =>
       /\ DOMAIN result = {"isError", "text"}
       /\ result.isError \in BOOLEAN
       /\ \A i \in 1..Len(calls) :
            (calls[i].api \notin OptionalCalls /\ ~args.crm[calls[i].api].ok)
              => result = [isError |-> TRUE,
                           text |-> Str(<<"Error in ", args.fn, ": ">>
                                          \o MessageOf(args.crm[calls[i].api].err))]

\* C15: when a non-optional CRM call of a handler rejects, the handler
\* still completes and returns an error payload with isError set whose text
\* is "Error in <tool>: <message>" for the tool that was invoked: every step
\* takes the invocation forward, no rejection leaves it anywhere but at its
\* return, and it ends in exactly one of a success or an error payload.
C15_RejectionBecomesErrorPayload ==
  /\ []ErrorPayloadOnRejection
  /\ [][PositionRank(pc') > PositionRank(pc)]_vars

\* list_tasks has returned the error payload of its rejected task fetch.
C15_Witness ==
  /\ ToolReturned
  /\ args.fn = "list_tasks"
  /\ args.hasMembersApi
  /\ args.crm["v2TasksGet"] = Rejected(ErrorOf(<<"Unauthorized">>))
  /\ result.isError
  /\ result.text = Str(<<"Error in ", "list_tasks", ": ", "Unauthorized">>)

\* The limit search_records is to respect: the limit argument, 25 without.
EffectiveLimit == IF args.limit.t = "number" THEN args.limit.v ELSE 25

\* The CRM respects a limit it is given: a call that carries a limit
\* resolves with at most that many records.
CrmRespectsLimit ==
  \A i \in 1..Len(calls) :
    ("limit" \in DOMAIN calls[i] /\ args.crm[calls[i].api].ok) =>
      Len(ArrayOrEmpty(Unwrap(args.crm[calls[i].api].data)).items) <= calls[i].limit.v

\* C26: search_records returns at most limit records (25 without a limit),
\* with a query and without: every CRM call that produces the records carries
\* the limit, so that a CRM that respects it bounds the response.
C26_AtMostLimit ==
  (ToolReturned /\ args.fn = "search_records" /\ CrmRespectsLimit) =>
    /\ \A i \in 1..Len(calls) :
         "limit" \in DOMAIN calls[i] /\ calls[i].limit = Num(EffectiveLimit)
    /\ ~result.isError => result.text.of.totalResults <= EffectiveLimit

\* Data that is not an array holding a null or undefined item.
NoNullItem(data) ==
  data.t = "array" =>
    \A i \in 1..Len(data.items) : data.items[i].t \notin {"null", "undefined"}

\* The events of one type in a timeline.
EventsOfType(timeline, type) ==
  {i \in 1..Len(timeline.items) : timeline.items[i].type = type}

\* C16: a rejected optional fetch never makes the response an error.  In
\* get_recent_activity the response is a success whose timeline holds no
\* event of a fetch that failed and is built from the lists of the others;
\* in get_record_details a rejected notes or entries fetch leaves that part
\* empty in a success; in list_tasks a rejected member fetch leaves the
\* fallback labels "User <id>" in a success.
C16_OptionalFailureIsSilent ==
  ToolReturned =>
    /\ args.fn = "get_recent_activity" =>
         /\ ~result.isError
         /\ result.text.of.timeline
              = buildActivityTimeline(locals.notes, locals.meetings, locals.threads)
         /\ ~args.crm["v2NotesGet"].ok
              => /\ locals.notes = Arr(<<>>)
                 /\ EventsOfType(result.text.of.timeline, "note") = {}
         /\ ~args.crm["v2MeetingsGet"].ok
              => /\ locals.meetings = Arr(<<>>)
                 /\ EventsOfType(result.text.of.timeline, "meeting") = {}
         /\ ~args.crm["v2ThreadsGet"].ok
              => /\ locals.threads = Arr(<<>>)
                 /\ EventsOfType(result.text.of.timeline, "thread") = {}
    /\ args.fn = "get_record_details" =>
         /\ (Issued("v2NotesGet") /\ ~args.crm["v2NotesGet"].ok)
              => ~result.isError /\ result.text.of.notes = Arr(<<>>)
         /\ (Issued("v2ObjectsObjectRecordsRecordIdEntriesGet")
               /\ ~args.crm["v2ObjectsObjectRecordsRecordIdEntriesGet"].ok)
              => ~result.isError /\ result.text.of.entries = Arr(<<>>)
    /\ (args.fn = "list_tasks" /\ Issued("v2WorkspaceMembersGet")
          /\ ~args.crm["v2WorkspaceMembersGet"].ok
          /\ args.crm["v2TasksGet"].ok
          /\ NoNullItem(args.crm["v2TasksGet"].data)) =>
         /\ ~result.isError
         /\ \A e \in {result.text.of.open[i] : i \in 1..Len(result.text.of.open)}
                       \cup {result.text.of.completed[i] :
                               i \in 1..Len(result.text.of.completed)} :
              \A j \in 1..Len(e.assignees) : Head(e.assignees[j].v) = "User "

\* With the notes and the threads fetch rejected, get_recent_activity has
\* returned a timeline of the two meetings of the record.
C16_Witness ==
  /\ ToolReturned
  /\ args.fn = "get_recent_activity"
  /\ ~args.crm["v2NotesGet"].ok
  /\ args.crm["v2MeetingsGet"].ok
  /\ ~args.crm["v2ThreadsGet"].ok
  /\ ~result.isError
  /\ result.text.of.totalEvents = 2
  /\ EventsOfType(result.text.of.timeline, "meeting") = {1, 2}

\* The lists of the lists response.
FetchedLists ==
  LET data == IF args.crm["v2ListsGet"].ok THEN args.crm["v2ListsGet"].data
              ELSE Undefined
  IN
    IF data.t = "array" THEN data.items
    ELSE IF data.t = "object" /\ "data" \in DOMAIN data.f
              /\ data.f["data"].t = "array"
      THEN data.f["data"].items
      ELSE <<>>

\* Lists as the CRM documents them: objects whose name, if any, is a string.
WellFormedLists ==
  \A i \in 1..Len(FetchedLists) :
    /\ FetchedLists[i].t = "object"
    /\ "name" \in DOMAIN FetchedLists[i].f => FetchedLists[i].f["name"].t = "string"

IdOfList(l) ==
  IF "id" \notin DOMAIN l.f THEN Undefined
  ELSE IF l.f["id"].t = "object" THEN l.f["id"].f["list_id"]
  ELSE l.f["id"]

\* The name of l contains listName case-insensitively, or its id equals it.
NamedBy(l, listName) ==
  \/ /\ "name" \in DOMAIN l.f
     /\ Includes(ToLowerCase(l.f["name"].v), ToLowerCase(listName.v))
  \/ IdOfList(l) = listName

EntriesQueries ==
  {i \in 1..Len(calls) : calls[i].api = "v2ListsListEntriesQueryPost"}

IsSummary(payload) ==
  /\ payload.text.t = "json"
  /\ "stages" \in DOMAIN payload.text.of

\* The behaviour of get_pipeline, given which listNames count as none.
PipelineBehaviour(none) ==
  (args.fn = "get_pipeline" /\ WellFormedLists) =>
    IF args.listName \in none
    THEN /\ EntriesQueries = {}
         /\ (pc = "done" /\ args.crm["v2ListsGet"].ok) =>
              /\ ~result.isError
              /\ ~IsSummary(result)
              /\ result.text.of.lists.t = "array" =>
                   result.text.of.lists
                     = Arr([i \in 1..Len(FetchedLists) |->
                              [id |-> IdOfList(FetchedLists[i]),
                               name |-> Get(FetchedLists[i], "name"),
                               objectType |-> Get(FetchedLists[i], "parent_object")]])
    ELSE /\ \A q \in EntriesQueries :
              \E i \in 1..Len(FetchedLists) :
                /\ NamedBy(FetchedLists[i], args.listName)
                /\ calls[q].list = IdOfList(FetchedLists[i])
         /\ (\A i \in 1..Len(FetchedLists) : ~NamedBy(FetchedLists[i], args.listName))
              => /\ EntriesQueries = {}
                 /\ (pc = "done" /\ args.crm["v2ListsGet"].ok) =>
                      /\ ~result.isError
                      /\ result.text.t = "string"
                      /\ Head(result.text.v) = "No list found matching \""

\* C17 as the specification states it: without a listName get_pipeline
\* returns the catalog and never queries entries or computes a summary;
\* with any listName it queries entries only for a list whose name contains
\* the listName case-insensitively or whose id equals it, and when no list
\* matches it returns a non-error "No list found" message without querying.
C17_CatalogOrMatch == PipelineBehaviour({Undefined})

\* C17, amended: the empty string as listName counts as no listName.
C17_CatalogOrMatchUnlessEmpty == PipelineBehaviour({Undefined, Str(<<>>)})

\* For the listName "sal" the handler has queried the entries of the first
\* list whose name contains it, "Presales", and returned its summary.
C17_Witness ==
  /\ ToolReturned
  /\ args.fn = "get_pipeline"
  /\ args.listName = Str(<<"s", "a", "l">>)
  /\ Len(FetchedLists) = 3
  /\ calls = <<[api |-> "v2ListsGet"],
               [api |-> "v2ListsListEntriesQueryPost", list |-> Word("list-3")]>>
  /\ IsSummary(result)
  /\ result.text.of.totalEntries = 2

(***************************************************************************)
(* Invocations in flight at once.  The handlers run on one event loop: an  *)
(* invocation runs from one await to the next, and at an await any other   *)
(* invocation may start or resume.  pc, args, result, locals and calls are *)
(* those of the invocation that runs; inflight holds the other             *)
(* invocations, each with its own position, input, locals and calls (the   *)
(* handlers' variables are declared inside the handler, and the module     *)
(* level of index.ts holds the API objects only).                          *)
(***************************************************************************)
\* The most invocations in flight besides the one that runs.
MaxOthers == 1

Invocation(p, a, r, l, c) ==
  [pc |-> p, args |-> a, result |-> r, locals |-> l, calls |-> c]

\* Handlers whose locals live at module level: an invocation that resumes
\* finds the locals the last invocation of its tool left, where that one had
\* declared the same variables.
Switch_SharedLocals(i) ==
  /\ i \in DOMAIN inflight
  /\ inflight[i].pc /= "done"
  /\ pc' = inflight[i].pc
  /\ args' = inflight[i].args
  /\ result' = inflight[i].result
  /\ locals' = IF inflight[i].args.fn = args.fn
                  /\ DOMAIN locals = DOMAIN inflight[i].locals
               THEN locals
               ELSE inflight[i].locals
  /\ calls' = inflight[i].calls
  /\ inflight' = [inflight EXCEPT ![i] = Invocation(pc, args, result, locals, calls)]

\* The running invocation is at an await (or has returned) and the event
\* loop starts or resumes invocation i.
Switch(i) ==
  /\ i \in DOMAIN inflight
  /\ inflight[i].pc /= "done"
  /\ pc' = inflight[i].pc
  /\ args' = inflight[i].args
  /\ result' = inflight[i].result
  /\ locals' = inflight[i].locals
  /\ calls' = inflight[i].calls
  /\ inflight' = [inflight EXCEPT ![i] = Invocation(pc, args, result, locals, calls)]

\* Invocations of every tool, two of each with different CRM responses.
ConcurrentInvocations ==
  {[fn |-> "search_records", objectType |-> TheObjectType, query |-> Word("alice"),
    limit |-> Undefined,
    crm |-> [api \in {"v2ObjectsRecordsSearchPost",
                      "v2ObjectsObjectRecordsQueryPost"} |-> Resolved(FoundRecords)]],
   [fn |-> "search_records", objectType |-> TheObjectType, query |-> Undefined,
    limit |-> Num(1),
    crm |-> [api \in {"v2ObjectsRecordsSearchPost",
                      "v2ObjectsObjectRecordsQueryPost"} |-> Rejected(Word("timeout"))]],
   [fn |-> "get_pipeline", listName |-> Str(<<"s", "a", "l">>),
    crm |-> "v2ListsGet" :> Resolved(Arr(<<HiringList, PresalesList, SalesList>>))
              @@ "v2ListsListEntriesQueryPost" :> Resolved(PipelineEntries)],
   [fn |-> "get_pipeline", listName |-> Word("list-2"),
    crm |-> "v2ListsGet" :> Resolved(Wrapped(Arr(<<NamelessList, SalesList, HiringList>>)))
              @@ "v2ListsListEntriesQueryPost" :> Resolved(Undefined)],
   [fn |-> "get_record_details", objectType |-> TheObjectType,
    recordId |-> TheRecordId,
    crm |-> "v2ObjectsObjectRecordsRecordIdGet" :> Resolved(PersonRecord)
              @@ "v2NotesGet" :> Rejected(ErrorOf(<<"Unauthorized">>))
              @@ "v2ObjectsObjectRecordsRecordIdEntriesGet" :> Resolved(PipelineEntries)],
   [fn |-> "list_tasks", limit |-> Undefined, hasMembersApi |-> TRUE,
    crm |-> "v2TasksGet" :> Resolved(FetchedTasks)
              @@ "v2WorkspaceMembersGet"
                   :> Resolved(Arr(<<AliceMember, BobMember, PlainMember>>))],
   [fn |-> "list_tasks", limit |-> Undefined, hasMembersApi |-> TRUE,
    crm |-> "v2TasksGet" :> Resolved(FetchedTasks)
              @@ "v2WorkspaceMembersGet" :> Rejected(ErrorOf(<<"Unauthorized">>))]}
    \cup {[fn |-> "get_recent_activity", objectType |-> TheObjectType,
           recordId |-> TheRecordId,
           crm |-> "v2NotesGet" :> no
                     @@ "v2MeetingsGet" :> Rejected(Word("timeout"))
                     @@ "v2ThreadsGet" :> Rejected(ErrorOf(<<"Unauthorized">>))] :
            no \in {Rejected(ErrorOf(<<"Unauthorized">>))}
                     \cup {Resolved(d) : d \in {x \in NotesData : x.t = "array"}}}

InitConcurrent ==
  /\ pc = "ready"
  /\ args \in ConcurrentInvocations
  /\ result = NoResult
  /\ locals = <<>>
  /\ calls = <<>>
  /\ inflight \in {[i \in DOMAIN as |-> Invocation("ready", as[i], NoResult, <<>>, <<>>)] :
                     as \in SeqsUpTo(ConcurrentInvocations, MaxOthers)}

NextConcurrent ==
  \/ Search_Start \/ Search_Resume
  \/ Pipeline_Start \/ Pipeline_Lists \/ Pipeline_Entries
  \/ Details_Start \/ Details_Record \/ Details_Notes \/ Details_Entries
  \/ Tasks_Start \/ Tasks_Resume
  \/ Activity_Start \/ Activity_Notes \/ Activity_Meetings \/ Activity_Threads
  \/ \E i \in DOMAIN inflight : Switch(i)

SpecConcurrent == InitConcurrent /\ [][NextConcurrent]_vars

(***************************************************************************)
(* Claims about invocations in flight at once (checked under               *)
(* SpecConcurrent).                                                        *)
(***************************************************************************)
\* What get_pipeline returns when it runs alone on the responses of a.
SoloPipeline(a) ==
  LET lo == a.crm["v2ListsGet"]
      eo == a.crm["v2ListsListEntriesQueryPost"]
      lists == Unwrap(lo.data)
      listArr == ArrayOrEmpty(lists)
      matched == FindList(listArr.items, a.listName)
  IN IF ~lo.ok THEN errorResult("get_pipeline", lo.err)
     ELSE IF ~Truthy(a.listName) THEN CatalogPayload(lists)
     ELSE IF matched = TypeError THEN errorResult("get_pipeline", RaisedTypeError)
     ELSE IF ~Truthy(matched) THEN NoListPayload(a.listName, listArr)
     ELSE IF ~eo.ok THEN errorResult("get_pipeline", eo.err)
     ELSE PipelinePayload(eo.data, ListIdOf(matched), matched)

\* What get_record_details returns when it runs alone on the responses of a.
SoloDetails(a) ==
  LET ro == a.crm["v2ObjectsObjectRecordsRecordIdGet"]
      eo == a.crm["v2ObjectsObjectRecordsRecordIdEntriesGet"]
      record == Or(Get(ro.data, "data"), ro.data)
      flat == flattenValues(Or(Get(record, "values"), EmptyObj))
  IN IF ~ro.ok THEN errorResult("get_record_details", ro.err)
     ELSE IF flat = TypeError THEN errorResult("get_record_details", RaisedTypeError)
     ELSE SuccessPayload(JsonText(
            [name |-> extractRecordName(record),
             flatValues |-> flat,
             allValues |-> Or(Get(record, "values"), EmptyObj),
             notes |-> NotesFor(a.crm["v2NotesGet"], a.objectType, a.recordId),
             entries |-> IF eo.ok THEN eo.data ELSE Arr(<<>>)]))

\* The payload an invocation with input and responses a returns when no
\* other invocation is in flight.
SoloPayload(a) ==
  CASE a.fn = "search_records" ->
         LET o == a.crm[IF Truthy(a.query) THEN "v2ObjectsRecordsSearchPost"
                        ELSE "v2ObjectsObjectRecordsQueryPost"]
         IN IF o.ok THEN SearchPayload(o.data, a.objectType)
            ELSE errorResult("search_records", o.err)
    [] a.fn = "get_pipeline" -> SoloPipeline(a)
    [] a.fn = "get_record_details" -> SoloDetails(a)
    [] a.fn = "list_tasks" ->
         IF a.crm["v2TasksGet"].ok
         THEN TasksPayload(a.crm["v2TasksGet"].data, a.limit,
                           fetchWorkspaceMembers(a.hasMembersApi,
                                                 a.crm["v2WorkspaceMembersGet"]))
         ELSE errorResult("list_tasks", a.crm["v2TasksGet"].err)
    [] a.fn = "get_recent_activity" ->
         ActivityPayload(
           NotesFor(a.crm["v2NotesGet"], a.objectType, a.recordId),
           LinkedFor(a.crm["v2MeetingsGet"], "associated_records",
                     {"record_id", "target_record_id"}, a.recordId),
           LinkedFor(a.crm["v2ThreadsGet"], "linked_records",
                     {"record_id"}, a.recordId))

\* Every invocation of a single-invocation run returns its solo payload.
SoloPayloadIsTheLoneRun ==
  (pc = "done" /\ inflight = <<>>) => result = SoloPayload(args)

\* The invocations in flight: the one that runs and the others.
InFlight ==
  {Invocation(pc, args, result, locals, calls)}
    \cup {inflight[i] : i \in DOMAIN inflight}

\* C22: with two or more invocations in flight, interleaved at their awaits
\* in any order, every invocation that has returned holds the payload it
\* returns when it runs alone on the same CRM responses.
C22_EachAsIfAlone ==
  \A inv \in InFlight :
    inv.pc = "done" => inv.result = SoloPayload(inv.args)

\* Two get_recent_activity invocations are in flight at once: one, whose
\* notes fetch rejects, is suspended at its last await with an empty notes
\* list, while the other, whose notes fetch resolved with a matching note,
\* has returned a timeline of that one note.
C22_Witness ==
  /\ pc = "done"
  /\ Len(inflight) = 1
  /\ inflight[1].pc = "activity_await_threads"
  /\ args.fn = "get_recent_activity"
  /\ inflight[1].args.fn = "get_recent_activity"
  /\ args.crm["v2NotesGet"].ok
  /\ ~inflight[1].args.crm["v2NotesGet"].ok
  /\ inflight[1].locals.notes = Arr(<<>>)
  /\ result = SoloPayload(args)
  /\ Len(result.text.of.timeline.items) = 1

(***************************************************************************)
(* A core function called twice on the same arguments.  The functions read *)
(* their arguments (map, filter, for-of, Map.get) and call sort on arrays  *)
(* they have built themselves, so a call leaves args as it found them; the *)
(* caller keeps the first result in locals and calls again.                *)
(***************************************************************************)
\* The caller keeps the result of the first call and calls again.
Repeat ==
  /\ pc = "done"
  /\ DOMAIN locals = {}
  /\ locals' = [first |-> result]
  /\ result' = NoResult
  /\ pc' = "ready"
  /\ UNCHANGED <<args, calls, inflight>>

\* Arguments of the four functions: lists whose order the function changes
\* in its result (a filter, a sort), lookup maps, and arguments it raises on.
RepeatArguments ==
  {[fn |-> "shapeSearchResults", records |-> rs, objectType |-> ot] :
     rs \in TaggedRecordLists \cup OddRecordLists, ot \in FilterChoices}
    \cup {[fn |-> "computePipelineSummary", listId |-> Word("list1"),
           listName |-> Word("Sales Pipeline"), entries |-> e,
           recordNameMap |-> m] :
            e \in StageEntryLists \cup {Null, Obj([data |-> Word("text")])},
            m \in {Word("r1") :> Word("Acme Deal")}}
    \cup {[fn |-> "enrichTasks", tasks |-> ts,
           memberMap |-> Word("m1") :> Word("Alice Smith"),
           recordNameMap |-> <<>>] :
            ts \in CoreTaskLists \cup {Null}}
    \cup {a \in TimelineArguments :
            a.threads.t = "array" => Len(a.threads.items) <= 1}

InitRepeat ==
  /\ pc = "ready"
  /\ args \in RepeatArguments
  /\ result = NoResult
  /\ locals = <<>>
  /\ calls = <<>>
  /\ inflight = <<>>

NextRepeat ==
  \/ Call_shapeSearchResults
  \/ Call_computePipelineSummary
  \/ Call_enrichTasks
  \/ Call_buildActivityTimeline
  \/ Repeat

SpecRepeat == InitRepeat /\ [][NextRepeat]_vars

(***************************************************************************)
(* Claims about repeated calls (checked under SpecRepeat).                 *)
(***************************************************************************)
CalledTwice == pc = "done" /\ DOMAIN locals = {"first"}

MaxRequests == 4

\* sessionIdGenerator: () => randomUUID(), an id no other transport has.
SessionIdOf(t) == Str(<<"s", ToString(t)>>)

\* Properties every object literal inherits from Object.prototype.
PrototypeKeys == {Word("constructor"), Word("__proto__")}

\* transports[sessionId] on the object literal transports: the transport
\* stored under the key, an inherited property, or undefined.
TableGet(table, key) ==
  IF key \in DOMAIN table THEN [t |-> "transport", ref |-> table[key]]
  ELSE IF key \in PrototypeKeys THEN [t |-> "function"]
  ELSE Undefined

\* transports[sid] = transport
TableSet(table, sid, transport) ==
  [k \in DOMAIN table \cup {sid} |-> IF k = sid THEN transport ELSE table[k]]

\* delete transports[sid]
TableDelete(table, sid) == [k \in DOMAIN table \ {sid} |-> table[k]]

\* The mcp-session-id header of a request: absent, empty, the id of a
\* session, an id no session has, the name of an inherited property.
SessionHeaders ==
  {Undefined, Str(<<>>), SessionIdOf(1), SessionIdOf(2), Word("unknown"),
   Word("constructor")}

\* The n-th request: its header, its method, and whether its body is an
\* initialize request.
Requests(n) ==
  {[fn |-> "/mcp", n |-> n, sessionId |-> h, method |-> m, isInitialize |-> b] :
     h \in SessionHeaders, m \in {"POST", "GET", "DELETE"}, b \in BOOLEAN}

BadRequest == [status |-> 400]

\* The response the transport writes.
ByTransport == [status |-> 200]

\* An onclose that leaves the session in the table.
Mcp_Close_KeepsSession ==
  /\ \E t \in DOMAIN locals.objects :
       /\ locals.objects[t].sessionId /= Undefined
       /\ ~locals.objects[t].closed
       /\ locals' = [locals EXCEPT !.objects[t].closed = TRUE]
  /\ UNCHANGED <<pc, args, result, calls, inflight>>

\* The handler up to its first await: the lookup of the session, the new
\* transport of an initialize request, or the 400 response.
Mcp_Receive ==
  /\ pc = "idle"
  /\ args.n < MaxRequests
  /\ \E req \in Requests(args.n + 1) :
       /\ args' = req
       /\ LET sessionId == req.sessionId
              found == TableGet(locals.transports, sessionId)
          IN IF Truthy(sessionId) /\ Truthy(found)
             THEN IF found.t = "transport"
                  THEN /\ locals' = [locals EXCEPT !.transport = found.ref]
                       /\ calls' = Append(calls, [api |-> "handleRequest",
                                                  transport |-> found.ref,
                                                  n |-> req.n])
                       /\ pc' = "handle_await"
                       /\ result' = NoResult
                  ELSE /\ result' = TypeError
                       /\ pc' = "idle"
                       /\ UNCHANGED <<locals, calls>>
             ELSE IF ~Truthy(sessionId) /\ req.method = "POST" /\ req.isInitialize
               THEN /\ locals' = [locals EXCEPT
                                    !.objects = Append(@, [sessionId |-> Undefined,
                                                           closed |-> FALSE]),
                                    !.transport = Len(locals.objects) + 1]
                    /\ pc' = "connect_await"
                    /\ result' = NoResult
                    /\ UNCHANGED calls
               ELSE /\ result' = BadRequest
                    /\ pc' = "idle"
                    /\ UNCHANGED <<locals, calls>>
  /\ UNCHANGED inflight

\* createServer().connect(transport) has resolved: the request is handed to
\* the new transport.
Mcp_Connected ==
  /\ pc = "connect_await"
  /\ calls' = Append(calls, [api |-> "handleRequest",
                             transport |-> locals.transport, n |-> args.n])
  /\ pc' = "handle_await"
  /\ UNCHANGED <<args, result, locals, inflight>>

\* transport.handleRequest has resolved.  On an initialize request a
\* transport without a session has drawn its id and run
\* onsessioninitialized: (sid) => { transports[sid] = transport; }
Mcp_Handled ==
  /\ pc = "handle_await"
  /\ LET t == locals.transport
         o == locals.objects[t]
     IN IF args.method = "POST" /\ args.isInitialize
             /\ o.sessionId = Undefined /\ ~o.closed
        THEN locals' = [locals EXCEPT
                          !.objects[t].sessionId = SessionIdOf(t),
                          !.transports = TableSet(@, SessionIdOf(t), t)]
        ELSE UNCHANGED locals
  /\ result' = ByTransport
  /\ pc' = "idle"
  /\ UNCHANGED <<args, calls, inflight>>

\* The transport of a session closes (a DELETE of the session, the loop of
\* the SIGINT handler) and runs
\* onclose: if (transport.sessionId) delete transports[transport.sessionId]
Mcp_Close ==
  /\ \E t \in DOMAIN locals.objects :
       /\ locals.objects[t].sessionId /= Undefined
       /\ ~locals.objects[t].closed
       /\ locals' = [locals EXCEPT
                       !.objects[t].closed = TRUE,
                       !.transports = TableDelete(@, locals.objects[t].sessionId)]
  /\ UNCHANGED <<pc, args, result, calls, inflight>>

InitHttp ==
  /\ pc = "idle"
  /\ args = [fn |-> "/mcp", n |-> 0, sessionId |-> Undefined, method |-> "GET",
             isInitialize |-> FALSE]
  /\ result = NoResult
  /\ locals = [transports |-> <<>>, objects |-> <<>>, transport |-> 0]
  /\ calls = <<>>
  /\ inflight = <<>>

NextHttp == Mcp_Receive \/ Mcp_Connected \/ Mcp_Handled \/ Mcp_Close

SpecHttp == InitHttp /\ [][NextHttp]_vars

(***************************************************************************)
(* Claims about HTTP mode (checked under SpecHttp).                        *)
(***************************************************************************)
\* A step in which a request arrives at the handler.
Arrives == args'.n = args.n + 1

\* The arriving request carries the id of a session that is in the session
\* table, or it is a POST initialize request that carries no session id.
HasSessionOrInitializes ==
  \/ args'.sessionId \in DOMAIN locals.transports
  \/ /\ args'.sessionId \in {Undefined, Str(<<>>)}
     /\ args'.method = "POST"
     /\ args'.isInitialize

\* C29: a request to /mcp is handed to a transport only if it carries the
\* id of a session in the session table or is a POST initialize request
\* without a session id; every other request is answered with status 400,
\* creates no transport and leaves the session table unchanged.
C29_OnlySessionsAndInitialize ==
  [][/\ calls' /= calls =>
          \/ Arrives /\ args'.sessionId \in DOMAIN locals.transports
          \/ /\ pc = "connect_await"
             /\ args.sessionId \in {Undefined, Str(<<>>)}
             /\ args.method = "POST"
             /\ args.isInitialize
     /\ (Arrives /\ ~HasSessionOrInitializes) =>
          /\ result' = BadRequest
          /\ pc' = "idle"
          /\ locals' = locals
          /\ calls' = calls]_vars

\* The sessions: the transports that have been initialized and have not
\* closed.
OpenSessions ==
  {t \in DOMAIN locals.objects :
     locals.objects[t].sessionId /= Undefined /\ ~locals.objects[t].closed}

\* The ids of the sessions that have closed.
ClosedSessionIds ==
  {locals.objects[t].sessionId :
     t \in {u \in DOMAIN locals.objects :
              locals.objects[u].sessionId /= Undefined /\ locals.objects[u].closed}}

\* The session table holds the open sessions, each under its own id.
TableHoldsOpenSessions ==
  /\ \A sid \in DOMAIN locals.transports :
       /\ locals.transports[sid] \in OpenSessions
       /\ locals.objects[locals.transports[sid]].sessionId = sid
  /\ \A t \in OpenSessions :
       /\ locals.objects[t].sessionId \in DOMAIN locals.transports
       /\ locals.transports[locals.objects[t].sessionId] = t

\* C30: the session table maps a session id to a transport exactly while
\* the session has been initialized and has not closed; an id is added only
\* by the session-initialized callback of its own transport, during the
\* initialize request handed to it; it is removed when the transport closes;
\* and a request that arrives with the id of a closed session gets 400.
C30_TableTracksSessions ==
  /\ []TableHoldsOpenSessions
  /\ [][/\ \A sid \in DOMAIN locals'.transports \ DOMAIN locals.transports :
            /\ pc = "handle_await"
            /\ args.method = "POST" /\ args.isInitialize
            /\ locals'.transports[sid] = locals.transport
            /\ locals.objects[locals.transport].sessionId = Undefined
            /\ locals'.objects[locals.transport].sessionId = sid
        /\ \A t \in OpenSessions :
             locals'.objects[t].closed =>
               locals.objects[t].sessionId \notin DOMAIN locals'.transports
        /\ (Arrives /\ args'.sessionId \in ClosedSessionIds) =>
             result' = BadRequest /\ pc' = "idle" /\ calls' = calls]_vars

\* Two sessions were initialized and the first has closed: the table holds
\* the second alone, and the request that just arrived with the id of the
\* first was answered with 400.
C30_Witness ==
  /\ pc = "idle"
  /\ Len(locals.objects) = 2
  /\ locals.objects[1] = [sessionId |-> SessionIdOf(1), closed |-> TRUE]
  /\ locals.objects[2] = [sessionId |-> SessionIdOf(2), closed |-> FALSE]
  /\ DOMAIN locals.transports = {SessionIdOf(2)}
  /\ locals.transports[SessionIdOf(2)] = 2
  /\ args.sessionId = SessionIdOf(1)
  /\ result = BadRequest

====
